---- MODULE Spec2Model ----
(***************************************************************************)
(* The database lifecycle and lookup manager of ipinfo: the GeoIPManager   *)
(* (two maxminddb readers and the AS-number prefix index behind one        *)
(* RWMutex), the background updater, the TTL cache and the two lookups     *)
(* that read through them.                                                 *)
(*                                                                         *)
(* Text is a tuple of one-character strings, a net.IP is a tuple of bytes  *)
(* (<<>> is the nil IP), a net.IPNet is [IP, ones, bits] with the mask     *)
(* net.CIDRMask(ones, bits).                                               *)
(***************************************************************************)
EXTENDS Integers, Sequences, FiniteSets, TLC

\* ------------------------------------------------------------------ text

\* The characters IP and prefix text is made of, in ASCII order.
CharOrder ==
    << ".", "/", "0", "1", "2", "3", "4", "5", "6", "7", "8", "9", ":",
       "a", "b", "c", "d", "e", "f" >>

Ord(c) == CHOOSE i \in 1..Len(CharOrder) : CharOrder[i] = c

HexDigits ==
    << "0", "1", "2", "3", "4", "5", "6", "7", "8", "9",
       "a", "b", "c", "d", "e", "f" >>

RECURSIVE uitoa(_)
uitoa(n) ==
    IF n < 10 THEN << HexDigits[n + 1] >>
    ELSE uitoa(n \div 10) \o << HexDigits[(n % 10) + 1] >>

RECURSIVE appendHex(_)
appendHex(n) ==
    IF n < 16 THEN << HexDigits[n + 1] >>
    ELSE appendHex(n \div 16) \o << HexDigits[(n % 16) + 1] >>

\* Go's string order: byte-wise lexicographic, a proper prefix first.
StrLess(a, b) ==
    \E k \in 0..(IF Len(a) < Len(b) THEN Len(a) ELSE Len(b)) :
        /\ \A i \in 1..k : a[i] = b[i]
        /\ \/ k = Len(a) /\ k < Len(b)
           \/ k < Len(a) /\ k < Len(b) /\ Ord(a[k + 1]) < Ord(b[k + 1])

RECURSIVE insertSorted(_, _)
insertSorted(s, x) ==
    IF s = << >> THEN << x >>
    ELSE IF StrLess(x, Head(s)) THEN << x >> \o s
    ELSE << Head(s) >> \o insertSorted(Tail(s), x)

RECURSIVE sortStrings(_)
sortStrings(s) ==
    IF s = << >> THEN << >>
    ELSE insertSorted(sortStrings(Tail(s)), Head(s))

stringsContains(s, c) == \E i \in 1..Len(s) : s[i] = c

Range(s) == { s[i] : i \in 1..Len(s) }

\* ------------------------------------------------------------------ net.IP

IPv4(a, b, c, d) == << 0, 0, 0, 0, 0, 0, 0, 0, 0, 0, 255, 255, a, b, c, d >>

To4(ip) ==
    IF Len(ip) = 4 THEN ip
    ELSE IF /\ Len(ip) = 16
            /\ \A i \in 1..10 : ip[i] = 0
            /\ ip[11] = 255
            /\ ip[12] = 255
         THEN SubSeq(ip, 13, 16)
         ELSE << >>

v6u16(ip, i) == ip[2 * i - 1] * 256 + ip[2 * i]

RECURSIVE zeroRun(_, _)
zeroRun(ip, i) ==
    IF i > 8 \/ v6u16(ip, i) # 0 THEN 0 ELSE 1 + zeroRun(ip, i + 1)

\* The first longest run of two or more zero fields, 0 when there is none.
zeroStart(ip) ==
    LET best == CHOOSE i \in 1..8 : \A j \in 1..8 :
                    \/ zeroRun(ip, j) < zeroRun(ip, i)
                    \/ zeroRun(ip, j) = zeroRun(ip, i) /\ i <= j
    IN  IF zeroRun(ip, best) >= 2 THEN best ELSE 0

RECURSIVE string6(_, _)
string6(ip, i) ==
    IF i > 8 THEN << >>
    ELSE IF i = zeroStart(ip)
         THEN LET j == i + zeroRun(ip, i)
              IN  << ":", ":" >> \o
                  (IF j > 8 THEN << >>
                   ELSE appendHex(v6u16(ip, j)) \o string6(ip, j + 1))
         ELSE (IF i > 1 THEN << ":" >> ELSE << >>) \o
              appendHex(v6u16(ip, i)) \o string6(ip, i + 1)

string4(p) ==
    uitoa(p[1]) \o << "." >> \o uitoa(p[2]) \o << "." >> \o
    uitoa(p[3]) \o << "." >> \o uitoa(p[4])

\* net.IP.String for an address of 4 or 16 bytes.
IPString(ip) ==
    IF To4(ip) # << >> THEN string4(To4(ip)) ELSE string6(ip, 1)

\* ------------------------------------------------------------------ net.IPNet

IPNet(ip, ones, bits) == [IP |-> ip, ones |-> ones, bits |-> bits]

RECURSIVE pow2(_)
pow2(n) == IF n = 0 THEN 1 ELSE 2 * pow2(n - 1)

\* Byte i of net.CIDRMask(ones, bits): the number of its leading one bits.
maskBits(ones, i) ==
    IF ones >= 8 * i THEN 8
    ELSE IF ones <= 8 * (i - 1) THEN 0
    ELSE ones - 8 * (i - 1)

\* b & m for a mask byte m with k leading one bits.
andMask(b, k) == (b \div pow2(8 - k)) * pow2(8 - k)

\* networkNumberAndMask: the network number, and the mask as [ones, off]
\* (off = 12 for a 16-byte mask cut to its last four bytes); nn = <<>> is nil.
networkNumberAndMask(n) ==
    LET ip == IF To4(n.IP) # << >> THEN To4(n.IP)
              ELSE IF Len(n.IP) = 16 THEN n.IP ELSE << >>
    IN  IF ip = << >> THEN [nn |-> << >>, ones |-> 0, off |-> 0]
        ELSE IF n.bits = 32
             THEN IF Len(ip) # 4 THEN [nn |-> << >>, ones |-> 0, off |-> 0]
                  ELSE [nn |-> ip, ones |-> n.ones, off |-> 0]
             ELSE IF Len(ip) = 4
                  THEN [nn |-> ip, ones |-> n.ones, off |-> 12]
                  ELSE [nn |-> ip, ones |-> n.ones, off |-> 0]

Contains(n, ipArg) ==
    LET nm == networkNumberAndMask(n)
        ip == IF To4(ipArg) # << >> THEN To4(ipArg) ELSE ipArg
    IN  /\ Len(ip) = Len(nm.nn)
        /\ \A i \in 1..Len(ip) :
               andMask(nm.nn[i], maskBits(nm.ones, i + nm.off))
                   = andMask(ip[i], maskBits(nm.ones, i + nm.off))

\* simpleMaskLength of the (possibly cut) mask.
simpleMaskLength(nm) ==
    IF nm.off = 0 THEN nm.ones
    ELSE IF nm.ones >= 96 THEN nm.ones - 96 ELSE 0

NilText == << "<", "n", "i", "l", ">" >>

\* net.IPNet.String
IPNetString(n) ==
    LET nm == networkNumberAndMask(n)
    IN  IF nm.nn = << >> THEN NilText
        ELSE IPString(nm.nn) \o << "/" >> \o uitoa(simpleMaskLength(nm))

\* ------------------------------------------------------------------ bogons

\* net.ParseIP of a text that holds a "/" (every IPv6 entry of BogonNets is
\* written that way, "2001:db8::/32"): no such text is an address, the result
\* is the nil IP.
ParseIPOfCIDRText == << >>

BogonV4 ==
    << IPNet(IPv4(0, 0, 0, 0), 8, 32),       IPNet(IPv4(10, 0, 0, 0), 8, 32),
       IPNet(IPv4(100, 64, 0, 0), 10, 32),   IPNet(IPv4(127, 0, 0, 0), 8, 32),
       IPNet(IPv4(127, 0, 53, 53), 32, 32),  IPNet(IPv4(169, 254, 0, 0), 16, 32),
       IPNet(IPv4(172, 16, 0, 0), 12, 32),   IPNet(IPv4(192, 0, 0, 0), 24, 32),
       IPNet(IPv4(192, 0, 2, 0), 24, 32),    IPNet(IPv4(192, 168, 0, 0), 16, 32),
       IPNet(IPv4(198, 18, 0, 0), 15, 32),   IPNet(IPv4(198, 51, 100, 0), 24, 32),
       IPNet(IPv4(203, 0, 113, 0), 24, 32),  IPNet(IPv4(224, 0, 0, 0), 4, 32),
       IPNet(IPv4(240, 0, 0, 0), 4, 32),     IPNet(IPv4(255, 255, 255, 255), 32, 32) >>

\* The mask lengths of the IPv6 entries, in the order of the list.
BogonV6Ones ==
    << 128, 128, 96, 96, 64, 28, 32, 7, 10, 10, 8,
       24, 24, 24, 32, 28, 40, 40, 32, 31, 40, 40, 20, 20, 48,
       40, 40, 40, 48, 44, 56, 56, 48, 47, 56, 56, 36, 36, 64 >>

BogonNets ==
    BogonV4 \o
    [i \in 1..Len(BogonV6Ones) |-> IPNet(ParseIPOfCIDRText, BogonV6Ones[i], 128)]

IsBogon(ip) == \E i \in 1..Len(BogonNets) : Contains(BogonNets[i], ip)

\* ------------------------------------------------------------------ databases

Editions == {"city", "asn"}

Net10  == IPNet(<< 10, 0, 0, 0 >>, 24, 32)
NetDoc == IPNet(<< 32, 1, 13, 184, 0, 0, 0, 0, 0, 0, 0, 0, 0, 0, 0, 0 >>, 32, 128)
Net9   == IPNet(<< 9, 9, 9, 0 >>, 24, 32)
Net100 == IPNet(<< 100, 0, 0, 0 >>, 16, 32)
NetCf  == IPNet(<< 38, 6, 71, 0, 0, 0, 0, 0, 0, 0, 0, 0, 0, 0, 0, 0 >>, 32, 128)
NetMap == IPNet(IPv4(192, 168, 0, 0), 112, 128)

OrgExample  == << "e", "x" >>
OrgQuad9    == << "q", "9" >>
OrgQuad9New == << "q", "9", "-", "1" >>

\* One entry of the ASN database as its iterator delivers it: the network, and
\* the record (decoded = FALSE: networks.Network returns an error).
Entry(net, asn, org, decoded) ==
    [net |-> net, asn |-> asn, org |-> org, decoded |-> decoded]

\* The contents an ASN database file can have, each in iteration order; the
\* release a file holds selects one.
AsnFixture ==
    << << Entry(Net9, 19281, OrgQuad9, TRUE),
          Entry(NetMap, 19281, OrgQuad9, TRUE),
          Entry(Net100, 0, << >>, TRUE),
          Entry(Net10, 64500, OrgExample, FALSE),
          Entry(NetCf, 19281, OrgQuad9, TRUE) >>,
       << Entry(Net10, 64500, OrgExample, TRUE),
          Entry(NetDoc, 64500, OrgExample, TRUE),
          Entry(Net9, 19281, OrgQuad9New, TRUE),
          Entry(Net100, 19281, OrgQuad9New, TRUE) >> >>

\* The AS numbers and addresses requests ask for.
ASNInputs == {64500, 19281}

Quad9  == << 9, 9, 9, 9 >>
Ten1   == << 10, 0, 0, 1 >>
IPInputs == { Quad9, IPv4(9, 9, 9, 9), Ten1 }

\* ip.String() of the addresses requests ask for.
ipStrOf == [ip \in IPInputs |-> IPString(ip)]

AsnContent(ver) == AsnFixture[(ver % Len(AsnFixture)) + 1]

ZeroASNRecord == [asn |-> 0, org |-> << >>]

\* Reader.Lookup on the ASN database: the record of the network holding ip,
\* the zero record when no network does.
AsnLookupIn(c, ip) ==
    LET hits == { i \in 1..Len(c) : c[i].decoded /\ Contains(c[i].net, ip) }
    IN  IF hits = {} THEN ZeroASNRecord
        ELSE LET i == CHOOSE j \in hits : \A k \in hits : j <= k
             IN  [asn |-> c[i].asn, org |-> c[i].org]

\* The addresses Lookup is called with: a request's, or a prefix's.
LookupIPs ==
    IPInputs \cup
    UNION { { AsnFixture[i][j].net.IP : j \in 1..Len(AsnFixture[i]) } :
            i \in 1..Len(AsnFixture) }

AsnAnswers ==
    [i \in 1..Len(AsnFixture) |->
        [ip \in LookupIPs |-> AsnLookupIn(AsnFixture[i], ip)]]

AsnLookup(ver, ip) == AsnAnswers[(ver % Len(AsnFixture)) + 1][ip]

\* A Lookup that never returns an error.
AsnLookupFailsIn_never(c, ip) == FALSE

\* Reader.Lookup returns an error: the record of the network holding ip
\* cannot be decoded.
AsnLookupFailsIn(c, ip) ==
    LET hits == { i \in 1..Len(c) : Contains(c[i].net, ip) }
    IN  /\ hits # {}
        /\ ~c[CHOOSE j \in hits : \A k \in hits : j <= k].decoded

AsnFailures ==
    [i \in 1..Len(AsnFixture) |->
        [ip \in LookupIPs |-> AsnLookupFailsIn(AsnFixture[i], ip)]]

AsnLookupFails(ver, ip) == AsnFailures[(ver % Len(AsnFixture)) + 1][ip]

\* Reader.Lookup on the city database: the country of a release is tagged with
\* the release, so that records of two releases differ.
CityLookup(ver, ip) == [IsoCode |-> << "C" >> \o uitoa(ver)]

\* ------------------------------------------------------------------ index

\* A loop that keeps, for each AS number, only the network it met last.
RECURSIVE buildLoop_overwrite(_, _)
buildLoop_overwrite(entries, m) ==
    IF entries = << >> THEN m
    ELSE LET e == Head(entries)
         IN  IF e.decoded /\ e.asn > 0
             THEN buildLoop_overwrite(Tail(entries),
                      [x \in DOMAIN m \cup {e.asn} |->
                          IF x = e.asn THEN << e.net >> ELSE m[x]])
             ELSE buildLoop_overwrite(Tail(entries), m)

\* A loop that files the entries of AS number 0 as well.
RECURSIVE buildLoop_keepZero(_, _)
buildLoop_keepZero(entries, m) ==
    IF entries = << >> THEN m
    ELSE LET e == Head(entries)
         IN  IF ~e.decoded THEN buildLoop_keepZero(Tail(entries), m)
             ELSE buildLoop_keepZero(Tail(entries),
                      [x \in DOMAIN m \cup {e.asn} |->
                          IF x = e.asn
                          THEN (IF x \in DOMAIN m THEN m[x] ELSE << >>)
                                   \o << e.net >>
                          ELSE m[x]])

\* buildASNPrefixMap's loop over the entries the iterator delivers.
RECURSIVE buildLoop(_, _)
buildLoop(entries, m) ==
    IF entries = << >> THEN m
    ELSE LET e == Head(entries)
         IN  IF ~e.decoded THEN buildLoop(Tail(entries), m)
             ELSE IF e.asn > 0
                  THEN buildLoop(Tail(entries),
                           [x \in DOMAIN m \cup {e.asn} |->
                               IF x = e.asn
                               THEN (IF x \in DOMAIN m THEN m[x] ELSE << >>)
                                        \o << e.net >>
                               ELSE m[x]])
                  ELSE buildLoop(Tail(entries), m)

EmptyMap == [x \in {} |-> << >>]

\* A read that answers a missing key with the list of another key.
MapGet_any(m, asn) ==
    IF asn \in DOMAIN m THEN m[asn]
    ELSE IF DOMAIN m = {} THEN << >>
    ELSE m[CHOOSE x \in DOMAIN m : TRUE]

\* g.asnPrefixMap[asn]: a missing key reads as the nil slice.
MapGet(m, asn) == IF asn \in DOMAIN m THEN m[asn] ELSE << >>

\* The index of each content.
FixtureIndex ==
    [i \in 1..Len(AsnFixture) |-> buildLoop(AsnFixture[i], EmptyMap)]

\* ------------------------------------------------------------------ bounds

\* Refresh cycles the updater runs, requests the server takes, clock ticks.
MaxCycles == 1
MaxRequests == 2
MaxTime == 1

\* The cache's time to live, in clock ticks.
TTL == 1

\* The goroutines that serve requests.
Workers == {1, 2}

\* ------------------------------------------------------------------ state

VARIABLES
    files,          \* the target file of each edition: [ver, valid]
    tmpFiles,       \* the ".tmp" file of each edition: << >> or << file >>
    handles,        \* every maxminddb.Reader opened so far: [ed, ver, gen, closed, closes]
    cityDB,         \* g.cityDB: an index into handles, 0 for nil
    asnDB,          \* g.asnDB
    asnPrefixMap,   \* g.asnPrefixMap
    mapGen,         \* the cycle that built asnPrefixMap (0: Initialize)
    mu,             \* g.mu: "free", or the holder of the write lock
    upd,            \* the updater goroutine
    lastCycle,      \* what the last cycle found and did
    swapped,        \* the last cycle that replaced the handles: [cycle, ok]
    worker,         \* the request goroutines
    cache,          \* cache.store: key -> [data, time]
    now,            \* the clock
    requests,       \* requests taken so far
    crashed,        \* the process died of a fault
    client,         \* goroutines calling the Cache directly
    stored,         \* per key, the item of the last Set made: << >> or << item >>
    calls,          \* Cache calls made so far
    dbEntries,      \* the entries of an ASN database given to the index builder
    built,          \* the maps buildASNPrefixMap made of dbEntries, in order
    ctxDone,        \* ctx.Done() is closed: the process was told to stop
    tickPending,    \* ticker.C holds a tick (a channel of capacity 1)
    mainPc,         \* main: "serving", or "closed" once its deferred Close returned
    reqPath,        \* r.URL.Path of a request given to the router
    handler,        \* the handler the router gave it to ("none": not yet)
    reply,          \* what the handler answered: status, lookup made, value read
    disk,           \* at startup, each database path: "missing", "corrupt", "valid"
    env,            \* GEOIPUPDATE_ACCOUNT_ID and GEOIPUPDATE_LICENSE_KEY
    boot            \* NewGeoIPManager's Initialize: where it is and what it did

clientVars == << client, stored, calls >>

indexVars == << dbEntries, built >>

lifeVars == << ctxDone, tickPending, mainPc >>

bootVars == << disk, env, boot >>

routeVars == << reqPath, handler, reply >>

vars ==
    << files, tmpFiles, handles, cityDB, asnDB, asnPrefixMap, mapGen, mu, upd,
       lastCycle, swapped, worker, cache, now, requests, crashed, client,
       stored, calls, dbEntries, built, ctxDone, tickPending, mainPc, reqPath, handler,
       reply, disk, env, boot >>

File(ver, valid) == [ver |-> ver, valid |-> valid]

Handle(ed, ver, gen) ==
    [ed |-> ed, ver |-> ver, gen |-> gen, closed |-> FALSE, closes |-> 0]

NoResult == [kind |-> "none"]

IdleWorker ==
    [pc |-> "idle", kind |-> "none", ip |-> << >>, asn |-> 0,
     cityH |-> 0, asnH |-> 0,
     cityRecord |-> [IsoCode |-> << >>], asnRecord |-> ZeroASNRecord,
     prefixes |-> << >>, prefixesGen |-> 0, hostname |-> << >>,
     seen |-> [cycle |-> 0, ok |-> TRUE],
     usedClosed |-> FALSE, hitUnder |-> "none", res |-> NoResult]

IdleUpdater ==
    [pc |-> "idle", cycle |-> 0, results |-> {}]

NoCycle ==
    [cycle |-> 0, download |-> [e \in Editions |-> "none"],
     before |-> [cityDB |-> 0, asnDB |-> 0, asnPrefixMap |-> EmptyMap,
                 files |-> [e \in Editions |-> File(0, TRUE)]],
     prev |-> [e \in Editions |-> "none"], cancelledAt |-> "none",
     order |-> << >>, returned |-> "none"]

\* A key of the cache: a Go interface value, its dynamic type and its value.
StringKey(text) == [type |-> "string", value |-> text]
UintKey(n) == [type |-> "uint", value |-> n]

\* maxminddb.Open(path): a reader on a valid file, nil and an error otherwise.
CanOpen(file) == file.valid

\* A build that leaves the index as it is when there is no ASN reader.
buildASNPrefixMap_keep(hs, asn) ==
    IF asn = 0 THEN asnPrefixMap
    ELSE FixtureIndex[(hs[asn].ver % Len(AsnFixture)) + 1]

\* buildASNPrefixMap: a fresh map, filled from the ASN reader if there is one.
buildASNPrefixMap(hs, asn) ==
    IF asn = 0 THEN EmptyMap
    ELSE FixtureIndex[(hs[asn].ver % Len(AsnFixture)) + 1]

\* The keys and values the Cache's direct callers use.
Keys == { StringKey(<< "k" >>), UintKey(1) }
Values == {"a", "b"}

Clients == {1, 2}

IdleClient ==
    [pc |-> "idle", key |-> UintKey(0), found |-> FALSE, data |-> NoResult,
     latest |-> << >>, at |-> 0]

\* No goroutine calls the Cache directly.
NoClients ==
    /\ client = [c \in Clients |-> IdleClient]
    /\ stored = [k \in Keys |-> << >>]
    /\ calls = 0

\* No request is at the router.
NoRequest ==
    /\ reqPath = << >>
    /\ handler = "none"
    /\ reply = [status |-> 0, lookup |-> "none", hit |-> "none",
                body |-> NoResult]

\* No database is given to the index builder.
NoIndexRun ==
    /\ dbEntries = << >>
    /\ built = << >>

\* Initialize before its first statement, the database paths as d says.
NewBoot(d) ==
    [pc |-> "lock", ed |-> "city", disk0 |-> d,
     first |-> [e \in Editions |-> "none"],
     downloads |-> [e \in Editions |-> 0],
     downloaded |-> [e \in Editions |-> "none"],
     answers |-> [e \in Editions |-> "none"],
     reopened |-> [e \in Editions |-> "none"],
     err |-> "none", failedOn |-> "none"]

\* The state NewGeoIPManager leaves: both files opened, the index built.
Manager ==
    /\ files = [e \in Editions |-> File(0, TRUE)]
    /\ tmpFiles = [e \in Editions |-> << >>]
    /\ handles = << Handle("city", 0, 0), Handle("asn", 0, 0) >>
    /\ cityDB = 1
    /\ asnDB = 2
    /\ asnPrefixMap = buildASNPrefixMap(<< Handle("city", 0, 0),
                                           Handle("asn", 0, 0) >>, 2)
    /\ mapGen = 0
    /\ mu = "free"
    /\ upd = IdleUpdater
    /\ lastCycle = NoCycle
    /\ swapped = [cycle |-> 0, ok |-> TRUE]
    /\ ctxDone = FALSE
    /\ tickPending = FALSE
    /\ mainPc = "serving"
    /\ disk = [e \in Editions |-> "valid"]
    /\ env = [accountID |-> "id", licenseKey |-> "key"]
    /\ boot = [NewBoot([e \in Editions |-> "valid"]) EXCEPT
                  !.pc = "ready",
                  !.first = [e \in Editions |-> "valid"]]

\* The server before its first request.
Server ==
    /\ worker = [w \in Workers |-> IdleWorker]
    /\ cache = [k \in {} |-> 0]
    /\ now = 0
    /\ requests = 0
    /\ crashed = FALSE

Init ==
    /\ Manager
    /\ Server
    /\ NoClients
    /\ NoIndexRun
    /\ NoRequest

\* ------------------------------------------------------------------ updater

\* StartUpdater's select, case <-ticker.C: a refresh cycle begins.
beginCycle ==
    /\ upd' = [IdleUpdater EXCEPT !.pc = "download", !.cycle = upd.cycle + 1]
    /\ lastCycle' = [NoCycle EXCEPT
                        !.cycle = upd.cycle + 1,
                        !.before = [cityDB |-> cityDB, asnDB |-> asnDB,
                                    asnPrefixMap |-> asnPrefixMap,
                                    files |-> files],
                        !.prev = lastCycle.download,
                        !.cancelledAt = lastCycle.cancelledAt,
                        !.returned = "running"]

\* The ticker fires while the goroutine waits in the select with neither
\* channel ready: the receive of case <-ticker.C is taken.
StartUpdater_ticker(limit) ==
    /\ ~crashed
    /\ upd.pc = "idle"
    /\ ~ctxDone /\ ~tickPending
    /\ upd.cycle < limit
    /\ beginCycle
    /\ UNCHANGED << routeVars, clientVars, indexVars, lifeVars, bootVars, files, tmpFiles, handles,
                    cityDB, asnDB, asnPrefixMap, mapGen, mu, swapped, worker,
                    cache, now, requests, crashed >>

StartUpdater_tick == StartUpdater_ticker(MaxCycles)

\* What one downloadFile call can come to, and whether the body it wrote is a
\* database: the request fails or is not a 200 or not gzip (no file is made),
\* the copy fails (the file is removed), closing the file fails (the file
\* stays), or the file is written.
DownloadOutcomes ==
    { << "requestError", FALSE >>, << "copyError", FALSE >>,
      << "closeError", FALSE >>, << "ok", TRUE >>, << "ok", FALSE >> }

\* The temp file downloadFile leaves.
downloadFile(old, outcome, cycle) ==
    IF outcome[1] = "requestError" THEN old
    ELSE IF outcome[1] = "copyError" THEN << >>
    ELSE << File(cycle, outcome[2]) >>

\* An UpdateDatabases that goes on to the swap although every download failed.
downloadToTemp_proceed ==
    /\ ~crashed
    /\ upd.pc = "download"
    /\ upd' = [upd EXCEPT !.pc = "lock"]
    /\ lastCycle' = [lastCycle EXCEPT
                        !.download = [e \in Editions |-> "error"]]
    /\ UNCHANGED << routeVars, clientVars, indexVars, lifeVars, bootVars,
                    files, tmpFiles, handles, cityDB, asnDB, asnPrefixMap,
                    mapGen, mu, swapped, worker, cache, now, requests,
                    crashed >>

\* The orders in which `for localPath, urlName := range targets` can visit the
\* two targets: Go leaves the iteration order of a map unspecified.
EditionOrders ==
    { o \in [1..Cardinality(Editions) -> Editions] :
        \A i, j \in DOMAIN o : o[i] = o[j] => i = j }

\* The first edition, in the order of the loop, whose download failed.
firstError(order, results) ==
    LET failed == { i \in DOMAIN order : order[i] \notin results }
    IN  IF failed = {} THEN "none"
        ELSE order[CHOOSE i \in failed : \A j \in failed : i <= j]

\* A loop that breaks at the first failed download: the editions after it are
\* not attempted.
downloadToTemp_loop_break(order, outcome) ==
    LET failed == { i \in DOMAIN order : outcome[order[i]][1] # "ok" }
        stop == IF failed = {} THEN Len(order)
                ELSE CHOOSE i \in failed : \A j \in failed : i <= j
    IN  [e \in Editions |->
            IF \E i \in 1..stop : order[i] = e
            THEN (IF outcome[e][1] = "ok" THEN "ok" ELSE "error")
            ELSE "none"]

\* The loop of downloadToTemp: every target is tried, `continue` after an
\* error; what became of each download.
downloadToTemp_loop(order, outcome) ==
    [e \in Editions |-> IF outcome[e][1] = "ok" THEN "ok" ELSE "error"]

\* downloadToTemp: its loop over the targets (a Go map: any order) and its
\* return: every edition is tried; on an error the temp files of the editions
\* that succeeded are removed and UpdateDatabases returns the error of the
\* first edition that failed.
downloadToTemp ==
    /\ ~crashed
    /\ upd.pc = "download"
    /\ \E order \in EditionOrders, outcome \in [Editions -> DownloadOutcomes] :
        LET tried == downloadToTemp_loop(order, outcome)
            results == { e \in Editions : tried[e] = "ok" }
            written == [e \in Editions |->
                           IF tried[e] = "none" THEN tmpFiles[e]
                           ELSE downloadFile(tmpFiles[e], outcome[e],
                                             upd.cycle)]
            firstErr == firstError(order, results)
        IN  /\ tmpFiles' =
                   IF firstErr # "none"
                   THEN [e \in Editions |->
                            IF e \in results THEN << >> ELSE written[e]]
                   ELSE written
            /\ upd' = [upd EXCEPT
                          !.results = results,
                          !.pc = IF firstErr # "none" THEN "idle"
                                 ELSE "lock"]
            /\ lastCycle' = [lastCycle EXCEPT
                   !.download = tried,
                   !.order = order,
                   !.returned = IF firstErr # "none" THEN firstErr
                                ELSE "running"]
    /\ UNCHANGED << routeVars, clientVars, indexVars, lifeVars, bootVars,
                    files, handles, cityDB, asnDB, asnPrefixMap, mapGen, mu,
                    swapped, worker, cache, now, requests, crashed >>

\* A Lock that also empties the cache.
UpdateDatabases_lock_flush ==
    /\ ~crashed
    /\ upd.pc = "lock"
    /\ mu = "free"
    /\ mu' = "updater"
    /\ upd' = [upd EXCEPT !.pc = "close"]
    /\ cache' = [k \in {} |-> 0]
    /\ UNCHANGED << routeVars, clientVars, indexVars, lifeVars, bootVars, files, tmpFiles, handles, cityDB,
                    asnDB, asnPrefixMap, mapGen, lastCycle, swapped, worker,
                    now, requests, crashed >>

\* UpdateDatabases: g.mu.Lock()
UpdateDatabases_lock ==
    /\ ~crashed
    /\ upd.pc = "lock"
    /\ mu = "free"
    /\ mu' = "updater"
    /\ upd' = [upd EXCEPT !.pc = "close"]
    /\ UNCHANGED << routeVars, clientVars, indexVars, lifeVars, bootVars, files, tmpFiles, handles, cityDB, asnDB, asnPrefixMap,
                    mapGen, lastCycle, swapped, worker, cache, now, requests,
                    crashed >>

\* Reader.Close on the reader h, if there is one.
closeReader(hs, h) ==
    IF h = 0 THEN hs
    ELSE [hs EXCEPT ![h].closed = TRUE, ![h].closes = @ + 1]

\* UpdateDatabases: the readers in service are closed and set to nil.
UpdateDatabases_close ==
    /\ ~crashed
    /\ upd.pc = "close"
    /\ handles' = closeReader(closeReader(handles, cityDB), asnDB)
    /\ cityDB' = 0
    /\ asnDB' = 0
    /\ upd' = [upd EXCEPT !.pc = "rename"]
    /\ UNCHANGED << routeVars, clientVars, indexVars, lifeVars, bootVars, files, tmpFiles, asnPrefixMap, mapGen, mu, lastCycle,
                    swapped, worker, cache, now, requests, crashed >>

\* An UpdateDatabases that copies each temp file into its target in place: a
\* copy that fails leaves a part of the file at the target path.
UpdateDatabases_rename_inPlace ==
    /\ ~crashed
    /\ upd.pc = "rename"
    /\ \E failed \in SUBSET upd.results :
        /\ files' = [e \in Editions |->
                        IF e \in failed THEN File(upd.cycle, FALSE)
                        ELSE IF e \in upd.results /\ tmpFiles[e] # << >>
                        THEN tmpFiles[e][1] ELSE files[e]]
        /\ tmpFiles' = [e \in Editions |->
                           IF e \in upd.results \ failed THEN << >>
                           ELSE tmpFiles[e]]
    /\ upd' = [upd EXCEPT !.pc = "reopen"]
    /\ UNCHANGED << routeVars, clientVars, indexVars, lifeVars, bootVars,
                    handles, cityDB, asnDB, asnPrefixMap, mapGen, mu,
                    lastCycle, swapped, worker, cache, now, requests,
                    crashed >>

\* UpdateDatabases: each temp file is renamed over its target; a rename that
\* fails is logged and its target keeps the old file.
UpdateDatabases_rename ==
    /\ ~crashed
    /\ upd.pc = "rename"
    /\ \E failed \in SUBSET upd.results :
        /\ files' = [e \in Editions |->
                        IF e \in upd.results \ failed /\ tmpFiles[e] # << >>
                        THEN tmpFiles[e][1] ELSE files[e]]
        /\ tmpFiles' = [e \in Editions |->
                           IF e \in upd.results \ failed THEN << >>
                           ELSE tmpFiles[e]]
    /\ upd' = [upd EXCEPT !.pc = "reopen"]
    /\ UNCHANGED << routeVars, clientVars, indexVars, lifeVars, bootVars, handles, cityDB, asnDB, asnPrefixMap, mapGen, mu,
                    lastCycle, swapped, worker, cache, now, requests,
                    crashed >>

\* An Open that hands back the reader the manager started with.
Open_stale(hs, ed, file, gen) ==
    [handles |-> hs, h |-> IF ed = "city" THEN 1 ELSE 2]

\* maxminddb.Open(path) as UpdateDatabases assigns it: the handles with the
\* new reader and its index, or the handles as they are and 0 (nil).
Open(hs, ed, file, gen) ==
    IF CanOpen(file)
    THEN [handles |-> Append(hs, Handle(ed, file.ver, gen)), h |-> Len(hs) + 1]
    ELSE [handles |-> hs, h |-> 0]

\* UpdateDatabases from g.cityDB, openErr = maxminddb.Open(CityDBPath) on:
\* both files are opened (a failure is logged and leaves nil), the index is
\* built, nil is returned and the deferred g.mu.Unlock() runs.
UpdateDatabases_reopen ==
    /\ ~crashed
    /\ upd.pc = "reopen"
    /\ LET city == Open(handles, "city", files["city"], upd.cycle)
           asn == Open(city.handles, "asn", files["asn"], upd.cycle)
       IN  /\ handles' = asn.handles
           /\ cityDB' = city.h
           /\ asnDB' = asn.h
           /\ asnPrefixMap' = buildASNPrefixMap(asn.handles, asn.h)
           /\ swapped' = [cycle |-> upd.cycle, ok |-> city.h # 0 /\ asn.h # 0]
    /\ mapGen' = upd.cycle
    /\ mu' = "free"
    /\ upd' = [upd EXCEPT !.pc = "idle"]
    /\ lastCycle' = [lastCycle EXCEPT !.returned = "nil"]
    /\ UNCHANGED << routeVars, clientVars, indexVars, lifeVars, bootVars, files, tmpFiles, worker, cache, now, requests, crashed >>

\* ------------------------------------------------------------------ cache

\* A Set that stores nothing.
Set_skip(c, key, data, t) == c

\* Cache.Set: c.store.Store(key, cachedItem{data, time.Now()})
Set(c, key, data, t) ==
    [k \in DOMAIN c \cup {key} |->
        IF k = key THEN [data |-> data, time |-> t] ELSE c[k]]

\* c.store.Delete(key)
Delete(c, key) == [k \in DOMAIN c \ {key} |-> c[k]]

\* Cache.Get up to its return or its Delete: "hit" with the data, "expired"
\* (the entry is there and time.Since(cached.time) >= ttl), or "miss".
Get(c, key, t) ==
    IF key \notin DOMAIN c THEN [state |-> "miss", data |-> NoResult]
    ELSE IF t - c[key].time < TTL
         THEN [state |-> "hit", data |-> c[key].data]
         ELSE [state |-> "expired", data |-> NoResult]

\* The clock moves on.
Tick ==
    /\ ~crashed
    /\ now < MaxTime
    /\ now' = now + 1
    /\ UNCHANGED << routeVars, clientVars, indexVars, lifeVars, bootVars, files, tmpFiles, handles, cityDB, asnDB, asnPrefixMap,
                    mapGen, mu, upd, lastCycle, swapped, worker, cache,
                    requests, crashed >>

\* ------------------------------------------------------------------ lookups

\* ToPtr: nil (<< >>) for the empty string, a pointer to it otherwise.
ToPtr(text) == IF text = << >> THEN << >> ELSE << text >>

TrimSuffix(text, c) ==
    IF Len(text) > 0 /\ text[Len(text)] = c
    THEN SubSeq(text, 1, Len(text) - 1) ELSE text

\* What net.LookupAddr can return: no name (an error, or none), or names.
Hostnames == { << >>, << << "d", "n", "s", "9", "." >> >> }

\* The key a lookup reads and writes the cache under.
cacheKey(wk) ==
    IF wk.kind = "ip" THEN StringKey(ipStrOf[wk.ip]) ELSE UintKey(wk.asn)

\* A goroutine is free for a request when it serves none: its handler has
\* not started, has returned, or has panicked (net/http recovers the panic).
Free(w) == worker[w].pc \in {"idle", "done", "panic"}

\* A lookup that fetches the city reader from the manager, under its read
\* lock, before it looks into the cache.
cacheGet_viaManager(w, kind, ip, asn) ==
    /\ ~crashed
    /\ Free(w)
    /\ \A v \in Workers : v < w => ~Free(v)
    /\ requests < MaxRequests
    /\ requests' = requests + 1
    /\ mu = "free"
    /\ LET wk == [IdleWorker EXCEPT !.kind = kind, !.ip = ip, !.asn = asn,
                                   !.cityH = cityDB]
           got == Get(cache, cacheKey(wk), now)
       IN  worker' = [worker EXCEPT ![w] =
               IF got.state = "hit"
               THEN [wk EXCEPT !.pc = "done", !.res = got.data,
                               !.hitUnder = mu]
               ELSE IF got.state = "expired" THEN [wk EXCEPT !.pc = "delete"]
               ELSE [wk EXCEPT !.pc = "miss"]]
    /\ UNCHANGED << routeVars, clientVars, indexVars, lifeVars, bootVars,
                    files, tmpFiles, handles, cityDB, asnDB, asnPrefixMap,
                    mapGen, mu, upd, lastCycle, swapped, cache, now, crashed >>

\* LookupIPData / LookupASNData: a request arrives, is given to the first free
\* goroutine, and the lookup makes its cache.Get(key), up to Get's return or
\* its Delete. On a hit the lookup returns; hitUnder notes who held the
\* manager's lock then.
cacheGet(w, kind, ip, asn) ==
    /\ ~crashed
    /\ mainPc = "serving"
    /\ Free(w)
    /\ \A v \in Workers : v < w => ~Free(v)
    /\ requests < MaxRequests
    /\ requests' = requests + 1
    /\ LET wk == [IdleWorker EXCEPT !.kind = kind, !.ip = ip, !.asn = asn]
           got == Get(cache, cacheKey(wk), now)
       IN  worker' = [worker EXCEPT ![w] =
               IF got.state = "hit"
               THEN [wk EXCEPT !.pc = "done", !.res = got.data,
                               !.hitUnder = mu]
               ELSE IF got.state = "expired" THEN [wk EXCEPT !.pc = "delete"]
               ELSE [wk EXCEPT !.pc = "miss"]]
    /\ UNCHANGED << routeVars, clientVars, indexVars, lifeVars, bootVars,
                    files, tmpFiles, handles, cityDB, asnDB, asnPrefixMap,
                    mapGen, mu, upd, lastCycle, swapped, cache, now, crashed >>

LookupIPData_Get(w) == \E ip \in IPInputs : cacheGet(w, "ip", ip, 0)

LookupASNData_Get(w) == \E asn \in ASNInputs : cacheGet(w, "asn", << >>, asn)

\* Cache.Get found the entry expired: c.store.Delete(key), return not found.
Get_Delete(w) ==
    /\ ~crashed
    /\ worker[w].pc = "delete"
    /\ cache' = Delete(cache, cacheKey(worker[w]))
    /\ worker' = [worker EXCEPT ![w].pc = "miss"]
    /\ UNCHANGED << routeVars, clientVars, indexVars, lifeVars, bootVars, files, tmpFiles, handles, cityDB, asnDB, asnPrefixMap,
                    mapGen, mu, upd, lastCycle, swapped, now, requests,
                    crashed >>

\* GetCityDB: under the read lock, the reader in service.
GetCityDB(w) ==
    /\ ~crashed
    /\ worker[w].pc = "miss"
    /\ worker[w].kind = "ip"
    /\ mu = "free"
    /\ worker' = [worker EXCEPT ![w].pc = "cityLookup", ![w].cityH = cityDB,
                                ![w].seen = swapped]
    /\ UNCHANGED << routeVars, clientVars, indexVars, lifeVars, bootVars, files, tmpFiles, handles, cityDB, asnDB, asnPrefixMap,
                    mapGen, mu, upd, lastCycle, swapped, cache, now, requests,
                    crashed >>

\* Reader.Lookup on reader h: "panic" on the nil reader (a nil dereference,
\* recovered by net/http), "closed" on a reader that was closed, else "ok".
readerState(hs, h) ==
    IF h = 0 THEN "panic" ELSE IF hs[h].closed THEN "closed" ELSE "ok"

\* A Lookup on a closed reader: once Close has returned it is an error; while
\* Close unmaps the file it is a fault that ends the process.
ClosedOutcomes == {"error", "fault"}

NilData == [kind |-> "nil"]

\* geoIP.GetCityDB().Lookup(ip, &cityRecord)
LookupIPData_cityLookup(w) ==
    /\ ~crashed
    /\ worker[w].pc = "cityLookup"
    /\ LET wk == worker[w]
           st == readerState(handles, wk.cityH)
       IN  \/ /\ st = "ok"
              /\ worker' = [worker EXCEPT
                     ![w].pc = "getASNDB",
                     ![w].cityRecord = CityLookup(handles[wk.cityH].ver, wk.ip)]
              /\ UNCHANGED crashed
           \/ /\ st = "panic"
              /\ worker' = [worker EXCEPT ![w].pc = "panic"]
              /\ UNCHANGED crashed
           \/ /\ st = "closed"
              /\ \E o \in ClosedOutcomes :
                    /\ worker' = [worker EXCEPT
                           ![w].pc = IF o = "error" THEN "done" ELSE "fault",
                           ![w].res = NilData,
                           ![w].usedClosed = TRUE]
                    /\ crashed' = (o = "fault")
    /\ UNCHANGED << routeVars, clientVars, indexVars, lifeVars, bootVars, files, tmpFiles, handles, cityDB, asnDB, asnPrefixMap,
                    mapGen, mu, upd, lastCycle, swapped, cache, now,
                    requests >>

\* GetASNDB: under the read lock, the reader in service.
GetASNDB(w) ==
    /\ ~crashed
    /\ worker[w].pc = "getASNDB"
    /\ mu = "free"
    /\ worker' = [worker EXCEPT ![w].pc = "asnLookup", ![w].asnH = asnDB,
                                ![w].seen = swapped]
    /\ UNCHANGED << routeVars, clientVars, indexVars, lifeVars, bootVars, files, tmpFiles, handles, cityDB, asnDB, asnPrefixMap,
                    mapGen, mu, upd, lastCycle, swapped, cache, now, requests,
                    crashed >>

\* geoIP.GetASNDB().Lookup(ip, &asnRecord)
LookupIPData_asnLookup(w) ==
    /\ ~crashed
    /\ worker[w].pc = "asnLookup"
    /\ worker[w].kind = "ip"
    /\ LET wk == worker[w]
           st == readerState(handles, wk.asnH)
       IN  \/ /\ st = "ok"
              /\ worker' = [worker EXCEPT ![w] =
                     IF AsnLookupFails(handles[wk.asnH].ver, wk.ip)
                     THEN [wk EXCEPT !.pc = "done", !.res = NilData]
                     ELSE [wk EXCEPT !.pc = "compose",
                              !.asnRecord =
                                  AsnLookup(handles[wk.asnH].ver, wk.ip)]]
              /\ UNCHANGED crashed
           \/ /\ st = "panic"
              /\ worker' = [worker EXCEPT ![w].pc = "panic"]
              /\ UNCHANGED crashed
           \/ /\ st = "closed"
              /\ \E o \in ClosedOutcomes :
                    /\ worker' = [worker EXCEPT
                           ![w].pc = IF o = "error" THEN "done" ELSE "fault",
                           ![w].res = NilData,
                           ![w].usedClosed = TRUE]
                    /\ crashed' = (o = "fault")
    /\ UNCHANGED << routeVars, clientVars, indexVars, lifeVars, bootVars, files, tmpFiles, handles, cityDB, asnDB, asnPrefixMap,
                    mapGen, mu, upd, lastCycle, swapped, cache, now,
                    requests >>

\* fmt.Sprintf("AS%d %s", number, organization)
OrgText(asnRecord) ==
    << "A", "S" >> \o uitoa(asnRecord.asn) \o << " " >> \o asnRecord.org

\* A record whose IP field is taken from the reverse-DNS name.
DataStruct_hostname(ipStr, hostnameStr, asnRecord, cityRecord) ==
    [kind |-> "ip",
     IP |-> ToPtr(hostnameStr),
     Hostname |-> ToPtr(hostnameStr),
     Org |-> ToPtr(OrgText(asnRecord)),
     Country |-> ToPtr(cityRecord.IsoCode)]

\* The DataStruct LookupIPData composes (City, Region, Timezone and Loc come
\* from the same city record as Country).
DataStruct(ipStr, hostnameStr, asnRecord, cityRecord) ==
    [kind |-> "ip",
     IP |-> ToPtr(ipStr),
     Hostname |-> ToPtr(hostnameStr),
     Org |-> ToPtr(OrgText(asnRecord)),
     Country |-> ToPtr(cityRecord.IsoCode)]

\* LookupIPData from net.LookupAddr on: the record is composed, stored in the
\* cache under ipStr and returned.
LookupIPData_compose(w) ==
    /\ ~crashed
    /\ worker[w].pc = "compose"
    /\ \E hostname \in Hostnames :
        LET wk == worker[w]
            ipStr == ipStrOf[wk.ip]
            hostnameStr == IF Len(hostname) > 0
                           THEN TrimSuffix(hostname[1], ".") ELSE << >>
            data == DataStruct(ipStr, hostnameStr, wk.asnRecord, wk.cityRecord)
        IN  /\ cache' = Set(cache, StringKey(ipStr), data, now)
            /\ worker' = [worker EXCEPT ![w].pc = "done", ![w].res = data,
                                        ![w].hostname = hostname]
    /\ UNCHANGED << routeVars, clientVars, indexVars, lifeVars, bootVars, files, tmpFiles, handles, cityDB, asnDB, asnPrefixMap,
                    mapGen, mu, upd, lastCycle, swapped, now, requests,
                    crashed >>

NotFound == [kind |-> "notfound"]

\* GetASNPrefixes: under the read lock, the index's list for the AS number;
\* LookupASNData returns the not-found error when it is empty.
GetASNPrefixes(w) ==
    /\ ~crashed
    /\ worker[w].pc = "miss"
    /\ worker[w].kind = "asn"
    /\ mu = "free"
    /\ LET prefixes == MapGet(asnPrefixMap, worker[w].asn)
       IN  worker' = [worker EXCEPT
               ![w].prefixes = prefixes,
               ![w].prefixesGen = mapGen,
               ![w].seen = swapped,
               ![w].pc = IF Len(prefixes) = 0 THEN "done" ELSE "getASNDB",
               ![w].res = IF Len(prefixes) = 0 THEN NotFound ELSE NoResult]
    /\ UNCHANGED << routeVars, clientVars, indexVars, lifeVars, bootVars, files, tmpFiles, handles, cityDB, asnDB, asnPrefixMap,
                    mapGen, mu, upd, lastCycle, swapped, cache, now, requests,
                    crashed >>

\* A filter that keeps the bogons too.
RECURSIVE filterPrefixes_all(_, _)
filterPrefixes_all(prefixes, v6) ==
    IF prefixes = << >> THEN << >>
    ELSE LET prefixStr == IPNetString(Head(prefixes))
             rest == filterPrefixes_all(Tail(prefixes), v6)
         IN  IF stringsContains(prefixStr, ":") = v6
             THEN << prefixStr >> \o rest ELSE rest

\* The texts of the prefixes that are not bogons and whose text holds a ":"
\* (v6 = TRUE) or does not (v6 = FALSE), in the order of the list.
RECURSIVE filterPrefixes(_, _)
filterPrefixes(prefixes, v6) ==
    IF prefixes = << >> THEN << >>
    ELSE LET prefix == Head(prefixes)
             prefixStr == IPNetString(prefix)
             rest == filterPrefixes(Tail(prefixes), v6)
         IN  IF ~IsBogon(prefix.IP) /\ stringsContains(prefixStr, ":") = v6
             THEN << prefixStr >> \o rest ELSE rest

\* LookupASNData's two lists for a list of prefixes: filtered, then sorted.
prefixLists(prefixes) ==
    [IPv4 |-> sortStrings(filterPrefixes(prefixes, FALSE)),
     IPv6 |-> sortStrings(filterPrefixes(prefixes, TRUE))]

\* The lists of every list the index can hold.
IndexLists ==
    UNION { { FixtureIndex[i][a] : a \in DOMAIN FixtureIndex[i] } :
            i \in 1..Len(AsnFixture) }

prefixListsOf == [p \in IndexLists |-> prefixLists(p)]

\* The ASNDataResponse LookupASNData composes.
ASNDataResponse(targetASN, orgName, prefixes) ==
    [kind |-> "asn",
     ASN |-> targetASN,
     Name |-> orgName,
     IPv4 |-> prefixListsOf[prefixes].IPv4,
     IPv6 |-> prefixListsOf[prefixes].IPv6]

\* LookupASNData from geoIP.GetASNDB().Lookup(prefixes[0].IP, &record) on: a
\* Lookup error leaves the name empty; the response is composed, stored in the
\* cache under targetASN and returned.
LookupASNData_compose(w) ==
    /\ ~crashed
    /\ worker[w].pc = "asnLookup"
    /\ worker[w].kind = "asn"
    /\ LET wk == worker[w]
           st == readerState(handles, wk.asnH)
           respond(orgName, closed) ==
               LET response == ASNDataResponse(wk.asn, orgName, wk.prefixes)
               IN  /\ cache' = Set(cache, UintKey(wk.asn), response, now)
                   /\ worker' = [worker EXCEPT
                          ![w].pc = "done", ![w].res = response,
                          ![w].usedClosed = closed]
                   /\ UNCHANGED crashed
       IN  \/ /\ st = "ok"
              /\ respond(AsnLookup(handles[wk.asnH].ver, wk.prefixes[1].IP).org,
                         FALSE)
           \/ /\ st = "panic"
              /\ worker' = [worker EXCEPT ![w].pc = "panic"]
              /\ UNCHANGED << cache, crashed >>
           \/ /\ st = "closed"
              /\ \/ respond(<< >>, TRUE)
                 \/ /\ worker' = [worker EXCEPT ![w].pc = "fault",
                                                ![w].usedClosed = TRUE]
                    /\ crashed' = TRUE
                    /\ UNCHANGED cache
    /\ UNCHANGED << routeVars, clientVars, indexVars, lifeVars, bootVars, files, tmpFiles, handles, cityDB, asnDB, asnPrefixMap,
                    mapGen, mu, upd, lastCycle, swapped, now, requests >>

\* ------------------------------------------------------------------ system

\* Every goroutine stops when the process dies of a fault.
Next ==
    \/ StartUpdater_tick
    \/ downloadToTemp
    \/ UpdateDatabases_lock
    \/ UpdateDatabases_close
    \/ UpdateDatabases_rename
    \/ UpdateDatabases_reopen
    \/ Tick
    \/ \E w \in Workers :
        \/ LookupIPData_Get(w)
        \/ LookupASNData_Get(w)
        \/ Get_Delete(w)
        \/ GetCityDB(w)
        \/ LookupIPData_cityLookup(w)
        \/ GetASNDB(w)
        \/ LookupIPData_asnLookup(w)
        \/ LookupIPData_compose(w)
        \/ GetASNPrefixes(w)
        \/ LookupASNData_compose(w)

\* The manager, its updater and the request goroutines.
Spec == Init /\ [][Next]_vars

\* ------------------------------------------------------------------ the Cache alone

\* Calls the clients make.
MaxCalls == 4

managerVars ==
    << files, tmpFiles, handles, cityDB, asnDB, asnPrefixMap, mapGen, mu, upd,
       lastCycle, swapped, lifeVars, bootVars >>

\* A client calls Cache.Set(key, data).
Cache_Set(c) ==
    /\ client[c].pc = "idle"
    /\ calls < MaxCalls
    /\ calls' = calls + 1
    /\ \E key \in Keys, data \in Values :
        /\ cache' = Set(cache, key, data, now)
        /\ stored' = [stored EXCEPT ![key] = << [data |-> data, time |-> now] >>]
    /\ UNCHANGED << routeVars, managerVars, indexVars, worker, requests, crashed, client,
                    now >>

\* A client calls Cache.Get(key): up to Get's return or its Delete. The
\* client notes what Get found, and beside it the item of the last Set.
Cache_Get(c) ==
    /\ client[c].pc = "idle"
    /\ calls < MaxCalls
    /\ calls' = calls + 1
    /\ \E key \in Keys :
        LET got == Get(cache, key, now)
        IN  client' = [client EXCEPT ![c] =
                [pc |-> IF got.state = "expired" THEN "delete" ELSE "idle",
                 key |-> key, found |-> got.state = "hit", data |-> got.data,
                 latest |-> stored[key], at |-> now]]
    /\ UNCHANGED << routeVars, managerVars, indexVars, worker, requests, crashed, cache,
                    now, stored >>

\* The client's Get found the entry expired: c.store.Delete(key), not found.
Cache_Get_Delete(c) ==
    /\ client[c].pc = "delete"
    /\ cache' = Delete(cache, client[c].key)
    /\ client' = [client EXCEPT ![c].pc = "idle"]
    /\ UNCHANGED << routeVars, managerVars, indexVars, worker, requests, crashed, now,
                    stored, calls >>

NextCache ==
    \/ Tick
    \/ \E c \in Clients :
        \/ Cache_Set(c)
        \/ Cache_Get(c)
        \/ Cache_Get_Delete(c)

\* The Cache under goroutines that call Set and Get.
SpecCache == Init /\ [][NextCache]_vars

\* ------------------------------------------------------------------ the index builder alone

\* Entries a database given to the builder holds, and builds made of it.
MaxEntries == 3
MaxBuilds == 2

\* The entries a database can hold: one per network.
EntryPool ==
    { Entry(Net10, 64500, OrgExample, TRUE),
      Entry(NetDoc, 64500, OrgExample, TRUE),
      Entry(Net100, 64500, OrgExample, TRUE),
      Entry(Net9, 19281, OrgQuad9, TRUE),
      Entry(NetCf, 0, << >>, TRUE),
      Entry(NetMap, 19281, OrgQuad9, FALSE) }

\* The orders an iterator can deliver the entries of a set in.
Orders(S) ==
    { s \in [1..Cardinality(S) -> S] :
        \A i, j \in 1..Cardinality(S) : i # j => s[i] # s[j] }

\* A database is given to the builder.
InitIndex ==
    /\ Manager
    /\ Server
    /\ NoClients
    /\ NoRequest
    /\ \E S \in SUBSET EntryPool :
        /\ Cardinality(S) <= MaxEntries
        /\ dbEntries \in Orders(S)
    /\ built = << >>

\* buildASNPrefixMap runs over the database, its iterator delivering the
\* entries in some order.
buildASNPrefixMap_run ==
    /\ Len(built) < MaxBuilds
    /\ \E order \in Orders(Range(dbEntries)) :
        built' = Append(built, buildLoop(order, EmptyMap))
    /\ UNCHANGED << routeVars, managerVars, clientVars, worker, requests,
                    crashed, cache, now, dbEntries >>

NextIndex == buildASNPrefixMap_run

\* The index builder on every database of the pool.
SpecIndex == InitIndex /\ [][NextIndex]_vars

\* ------------------------------------------------------------------ updater's life

MaxTicks == 2

\* The ticker fires while the goroutine is in a cycle: the tick waits in
\* ticker.C; a tick that finds the channel full is dropped.
ticker_send ==
    /\ upd.pc \notin {"notStarted", "idle", "stopped"}
    /\ ~tickPending
    /\ upd.cycle < MaxTicks
    /\ tickPending' = TRUE
    /\ UNCHANGED << routeVars, clientVars, indexVars, bootVars, mainPc, ctxDone, files, tmpFiles, handles,
                    cityDB, asnDB, asnPrefixMap, mapGen, mu, upd, lastCycle,
                    swapped, worker, cache, now, requests, crashed >>

\* main's context is cancelled (a signal arrived): ctx.Done() is closed.
cancel ==
    /\ ~ctxDone
    /\ upd.pc # "stopped"
    /\ ctxDone' = TRUE
    /\ lastCycle' = [lastCycle EXCEPT !.cancelledAt = upd.pc]
    /\ UNCHANGED << routeVars, clientVars, indexVars, bootVars, mainPc, tickPending, files, tmpFiles,
                    handles, cityDB, asnDB, asnPrefixMap, mapGen, mu, upd,
                    swapped, worker, cache, now, requests, crashed >>

\* A select that never takes case <-ctx.Done().
StartUpdater_select_deaf ==
    /\ upd.pc = "idle"
    /\ ctxDone
    /\ UNCHANGED vars

\* A tick that starts UpdateDatabases wherever the goroutine is, as if every
\* tick ran its cycle in a goroutine of its own.
StartUpdater_select_tick_go ==
    /\ upd.pc # "stopped"
    /\ tickPending
    /\ tickPending' = FALSE
    /\ beginCycle
    /\ UNCHANGED << routeVars, clientVars, indexVars, bootVars, mainPc,
                    ctxDone, files, tmpFiles, handles, cityDB, asnDB,
                    asnPrefixMap, mapGen, mu, swapped, worker, cache, now,
                    requests, crashed >>

\* The loop comes back to the select and a tick waits in ticker.C: the select
\* may take case <-ticker.C (with ctx.Done() ready as well it chooses among
\* the ready cases at random).
StartUpdater_select_tick ==
    /\ upd.pc = "idle"
    /\ tickPending
    /\ tickPending' = FALSE
    /\ beginCycle
    /\ UNCHANGED << routeVars, clientVars, indexVars, bootVars, mainPc, ctxDone, files, tmpFiles, handles,
                    cityDB, asnDB, asnPrefixMap, mapGen, mu, swapped, worker,
                    cache, now, requests, crashed >>

\* The select takes case <-ctx.Done(): ticker.Stop() and return.
StartUpdater_select_done ==
    /\ upd.pc = "idle"
    /\ ctxDone
    /\ upd' = [upd EXCEPT !.pc = "stopped"]
    /\ UNCHANGED << routeVars, clientVars, indexVars, lifeVars, bootVars, files, tmpFiles, handles,
                    cityDB, asnDB, asnPrefixMap, mapGen, mu, lastCycle,
                    swapped, worker, cache, now, requests, crashed >>

NextUpdater ==
    \/ StartUpdater_ticker(MaxTicks)
    \/ ticker_send
    \/ cancel
    \/ StartUpdater_select_tick
    \/ StartUpdater_select_done
    \/ downloadToTemp
    \/ UpdateDatabases_lock
    \/ UpdateDatabases_close
    \/ UpdateDatabases_rename
    \/ UpdateDatabases_reopen

\* The updater goroutine from StartUpdater to its return.
SpecUpdater == Init /\ [][NextUpdater]_vars

\* The same under a fair scheduler: a cycle that has begun runs to its end,
\* and a select that is reached again and again with ctx.Done() ready takes
\* that case in the end.
FairSpecUpdater ==
    /\ SpecUpdater
    /\ WF_vars(downloadToTemp)
    /\ WF_vars(UpdateDatabases_lock)
    /\ WF_vars(UpdateDatabases_close)
    /\ WF_vars(UpdateDatabases_rename)
    /\ WF_vars(UpdateDatabases_reopen)
    /\ SF_vars(StartUpdater_select_done)

\* ------------------------------------------------------------------ startup

\* A test of the credentials that lets everything pass.
haveCredentials_any(e) == TRUE

\* DownloadDatabases' test of the credentials.
haveCredentials(e) == ~(e.accountID = "" \/ e.licenseKey = "")

\* An openDB that fetches the file whatever the error of Open was.
openDB_first_retry(f) ==
    IF f = "valid" THEN "assign" ELSE "download"

\* openDB after its first maxminddb.Open(path): the reader is assigned, or
\* the error is not os.IsNotExist and is returned, or the file is fetched.
openDB_first(f) ==
    IF f = "valid" THEN "assign"
    ELSE IF f # "missing" THEN "fail"
    ELSE "download"

\* What one downloadEdition call can come to: an error that leaves no temp
\* file of this call ("error"), a failed os.Rename (the temp file stays), 304 Not Modified (only for a file that is there to be hashed), or
\* a body renamed over the path, a database or not.
EditionOutcomes(f) ==
    {"error", "renameError", "valid", "corrupt"}
        \cup (IF f # "missing" THEN {"notModified"} ELSE {})

\* A downloadEdition that installs the empty body of a 304 answer.
downloadEdition_install304(f, outcome) ==
    IF outcome \in {"error", "renameError"} THEN f
    ELSE IF outcome = "notModified" THEN "corrupt"
    ELSE outcome

\* The path of one edition after downloadEdition.
downloadEdition(f, outcome) ==
    IF outcome \in {"error", "renameError", "notModified"} THEN f ELSE outcome

\* openDB assigns the reader it opened and returns nil; Initialize goes on
\* to the next path or to buildASNPrefixMap.
openDB_assign(b, e) ==
    /\ handles' = Append(handles, Handle(e, 0, 0))
    /\ IF e = "city"
       THEN /\ cityDB' = Len(handles) + 1
            /\ boot' = [b EXCEPT !.pc = "open", !.ed = "asn"]
            /\ UNCHANGED asnDB
       ELSE /\ asnDB' = Len(handles) + 1
            /\ boot' = [b EXCEPT !.pc = "build"]
            /\ UNCHANGED cityDB
    /\ UNCHANGED mu

\* openDB returns an error: Initialize returns it, its deferred Unlock runs
\* and main exits.
openDB_fail(b, e, err) ==
    /\ boot' = [b EXCEPT !.pc = "failed", !.err = err, !.failedOn = e]
    /\ mu' = "free"
    /\ UNCHANGED << handles, cityDB, asnDB >>

\* Initialize: g.mu.Lock()
Initialize_lock ==
    /\ boot.pc = "lock"
    /\ mu = "free"
    /\ mu' = "initialize"
    /\ boot' = [boot EXCEPT !.pc = "open"]
    /\ UNCHANGED << routeVars, clientVars, indexVars, lifeVars, disk, env, files,
                    tmpFiles, handles, cityDB, asnDB, asnPrefixMap, mapGen,
                    upd, lastCycle, swapped, worker, cache, now, requests,
                    crashed >>

\* openDB(path): db, err := maxminddb.Open(path) and what follows at once.
openDB_open ==
    /\ boot.pc = "open"
    /\ LET e == boot.ed
           b == [boot EXCEPT !.first[e] = disk[e]]
           step == openDB_first(disk[e])
       IN  IF step = "assign" THEN openDB_assign(b, e)
           ELSE IF step = "fail" THEN openDB_fail(b, e, "ErrDatabaseOpen")
           ELSE /\ boot' = [b EXCEPT !.pc = "download"]
                /\ UNCHANGED << handles, cityDB, asnDB, mu >>
    /\ UNCHANGED << routeVars, clientVars, indexVars, lifeVars, disk, env, files,
                    tmpFiles, asnPrefixMap, mapGen, upd, lastCycle, swapped,
                    worker, cache, now, requests, crashed >>

\* openDB: g.DownloadDatabases(context.Background()): without credentials an
\* error at once; with them every edition is tried and the first error is
\* returned.
openDB_DownloadDatabases ==
    /\ boot.pc = "download"
    /\ LET e == boot.ed
           b == [boot EXCEPT !.downloads[e] = @ + 1]
       IN  IF ~haveCredentials(env)
           THEN /\ openDB_fail([b EXCEPT !.downloaded[e] = "error"], e,
                               "ErrDownloadFailed")
                /\ UNCHANGED << disk, tmpFiles >>
           ELSE \E outcome \in [Editions -> {"error", "renameError", "valid",
                                             "corrupt", "notModified"}] :
                  /\ \A x \in Editions : outcome[x] \in EditionOutcomes(disk[x])
                  /\ disk' = [x \in Editions |->
                                 downloadEdition(disk[x], outcome[x])]
                  /\ tmpFiles' = [x \in Editions |->
                                     IF outcome[x] = "renameError"
                                     THEN << File(0, TRUE) >>
                                     ELSE IF outcome[x] \in {"notModified",
                                                            "error"}
                                     THEN tmpFiles[x] ELSE << >>]
                  /\ IF \E x \in Editions :
                            outcome[x] \in {"error", "renameError"}
                     THEN openDB_fail([b EXCEPT !.downloaded[e] = "error",
                                               !.answers = outcome], e,
                                      "ErrDownloadFailed")
                     ELSE /\ boot' = [b EXCEPT !.pc = "reopen",
                                               !.downloaded[e] = "nil",
                                               !.answers = outcome]
                          /\ UNCHANGED << handles, cityDB, asnDB, mu >>
    /\ UNCHANGED << routeVars, clientVars, indexVars, lifeVars, env, files,
                    asnPrefixMap, mapGen, upd, lastCycle, swapped, worker,
                    cache, now, requests, crashed >>

\* openDB: the second maxminddb.Open(path), after the download.
openDB_reopen ==
    /\ boot.pc = "reopen"
    /\ LET e == boot.ed
       IN  IF disk[e] = "valid"
           THEN openDB_assign([boot EXCEPT !.reopened[e] = "ok"], e)
           ELSE openDB_fail([boot EXCEPT !.reopened[e] = "fail"], e,
                            "ErrDatabaseOpen")
    /\ UNCHANGED << routeVars, clientVars, indexVars, lifeVars, disk, env, files,
                    tmpFiles, asnPrefixMap, mapGen, upd, lastCycle, swapped,
                    worker, cache, now, requests, crashed >>

\* Initialize: g.buildASNPrefixMap(), return nil, the deferred Unlock.
Initialize_build ==
    /\ boot.pc = "build"
    /\ asnPrefixMap' = buildASNPrefixMap(handles, asnDB)
    /\ mu' = "free"
    /\ boot' = [boot EXCEPT !.pc = "ready"]
    /\ UNCHANGED << routeVars, clientVars, indexVars, lifeVars, disk, env, files,
                    tmpFiles, handles, cityDB, asnDB, mapGen, upd, lastCycle,
                    swapped, worker, cache, now, requests, crashed >>

\* The process starts: any files at the two paths, any credentials, a
\* manager with no reader and no index, main about to call NewGeoIPManager,
\* no updater goroutine yet.
InitBoot ==
    /\ disk \in [Editions -> {"missing", "corrupt", "valid"}]
    /\ env \in [accountID : {"", "set"}, licenseKey : {"", "set"}]
    /\ boot = NewBoot(disk)
    /\ files = [e \in Editions |-> File(0, TRUE)]
    /\ tmpFiles = [e \in Editions |-> << >>]
    /\ handles = << >>
    /\ cityDB = 0
    /\ asnDB = 0
    /\ asnPrefixMap = EmptyMap
    /\ mapGen = 0
    /\ mu = "free"
    /\ upd = [IdleUpdater EXCEPT !.pc = "notStarted"]
    /\ lastCycle = NoCycle
    /\ swapped = [cycle |-> 0, ok |-> TRUE]
    /\ ctxDone = FALSE
    /\ tickPending = FALSE
    /\ mainPc = "NewGeoIPManager"
    /\ NoRequest
    /\ Server
    /\ NoClients
    /\ NoIndexRun

NextBoot ==
    \/ Initialize_lock
    \/ openDB_open
    \/ openDB_DownloadDatabases
    \/ openDB_reopen
    \/ Initialize_build

\* NewGeoIPManager at the start of main.
SpecBoot == InitBoot /\ [][NextBoot]_vars

\* ------------------------------------------------------------------ shutdown

\* main's deferred geoIP.Close(), after appServer.Start(ctx) has returned on
\* the cancelled context: under the write lock both readers, when not nil,
\* are closed; the fields keep pointing at them.
Close ==
    /\ mainPc = "serving"
    /\ ctxDone
    /\ mu = "free"
    /\ handles' = closeReader(closeReader(handles, cityDB), asnDB)
    /\ mainPc' = "closed"
    /\ UNCHANGED << routeVars, clientVars, indexVars, bootVars, ctxDone, tickPending,
                    files, tmpFiles, cityDB, asnDB, asnPrefixMap, mapGen, mu,
                    upd, lastCycle, swapped, worker, cache, now, requests,
                    crashed >>

NextShutdown ==
    \/ StartUpdater_ticker(MaxTicks)
    \/ ticker_send
    \/ cancel
    \/ StartUpdater_select_tick
    \/ StartUpdater_select_done
    \/ downloadToTemp
    \/ UpdateDatabases_lock
    \/ UpdateDatabases_close
    \/ UpdateDatabases_rename
    \/ UpdateDatabases_reopen
    \/ Close

\* main from StartUpdater to the return of its deferred Close.
SpecShutdown == Init /\ [][NextShutdown]_vars

\* ------------------------------------------------------------------ reload in place

\* UpdateDatabases of the MaxMind updater, its DownloadDatabases call: each
\* edition in the order of the edition list is fetched by downloadEdition,
\* which renames the new file over the database path itself; an error of any
\* edition makes UpdateDatabases return before it takes the lock.
UpdateDatabases_DownloadDatabases ==
    /\ upd.pc = "download"
    /\ \E outcome \in [Editions -> {"error", "renameError", "valid", "corrupt",
                                    "notModified"}] :
        LET order == << "city", "asn" >>
            results == { e \in Editions :
                           outcome[e] \notin {"error", "renameError"} }
            firstErr == IF haveCredentials(env) THEN firstError(order, results)
                        ELSE "credentials"
        IN  /\ files' = [e \in Editions |->
                            IF ~haveCredentials(env) THEN files[e]
                            ELSE IF outcome[e] = "valid"
                            THEN File(upd.cycle, TRUE)
                            ELSE IF outcome[e] = "corrupt"
                            THEN File(upd.cycle, FALSE)
                            ELSE files[e]]
            /\ tmpFiles' = [e \in Editions |->
                               IF ~haveCredentials(env) THEN tmpFiles[e]
                               ELSE IF outcome[e] = "renameError"
                               THEN << File(upd.cycle, TRUE) >>
                               ELSE IF outcome[e] \in {"valid", "corrupt"}
                               THEN << >>
                               ELSE tmpFiles[e]]
            /\ upd' = [upd EXCEPT
                          !.results = results,
                          !.pc = IF firstErr # "none" THEN "idle" ELSE "lock"]
            /\ lastCycle' = [lastCycle EXCEPT
                   !.download = [e \in Editions |->
                                    IF e \in results THEN "ok" ELSE "error"],
                   !.order = order,
                   !.returned = IF firstErr # "none" THEN firstErr
                                ELSE "running"]
    /\ UNCHANGED << routeVars, clientVars, indexVars, lifeVars, bootVars,
                    handles, cityDB, asnDB, asnPrefixMap, mapGen, mu,
                    swapped, worker, cache, now, requests, crashed >>

\* An UpdateDatabases that closes the readers through g.Close(), which takes
\* the write lock itself.
UpdateDatabases_Close_viaClose ==
    /\ upd.pc = "close"
    /\ mu = "free"
    /\ handles' = closeReader(closeReader(handles, cityDB), asnDB)
    /\ upd' = [upd EXCEPT !.pc = "reopen"]
    /\ UNCHANGED << routeVars, clientVars, indexVars, lifeVars, bootVars,
                    files, tmpFiles, cityDB, asnDB, asnPrefixMap, mapGen, mu,
                    lastCycle, swapped, worker, cache, now, requests,
                    crashed >>

\* UpdateDatabases of the MaxMind updater: the readers in service are closed;
\* the fields keep pointing at them.
UpdateDatabases_Close ==
    /\ upd.pc = "close"
    /\ handles' = closeReader(closeReader(handles, cityDB), asnDB)
    /\ upd' = [upd EXCEPT !.pc = "reopen"]
    /\ UNCHANGED << routeVars, clientVars, indexVars, lifeVars, bootVars,
                    files, tmpFiles, cityDB, asnDB, asnPrefixMap, mapGen, mu,
                    lastCycle, swapped, worker, cache, now, requests,
                    crashed >>

\* UpdateDatabases of the MaxMind updater from g.cityDB, openErr =
\* maxminddb.Open(CityDBPath) on: a failed Open leaves nil in its field and
\* makes UpdateDatabases return at once, the other field and the index as
\* they are; after two good Opens the index is built. The deferred Unlock
\* runs on every return.
UpdateDatabases_Open ==
    /\ upd.pc = "reopen"
    /\ LET city == Open(handles, "city", files["city"], upd.cycle)
           asn == Open(city.handles, "asn", files["asn"], upd.cycle)
       IN  IF city.h = 0
           THEN /\ cityDB' = 0
                /\ lastCycle' = [lastCycle EXCEPT !.returned = "reopenCity"]
                /\ UNCHANGED << handles, asnDB, asnPrefixMap, mapGen >>
           ELSE /\ handles' = asn.handles
                /\ cityDB' = city.h
                /\ asnDB' = asn.h
                /\ IF asn.h = 0
                   THEN /\ lastCycle' = [lastCycle EXCEPT
                                            !.returned = "reopenAsn"]
                        /\ UNCHANGED << asnPrefixMap, mapGen >>
                   ELSE /\ asnPrefixMap' = buildASNPrefixMap(asn.handles, asn.h)
                        /\ mapGen' = upd.cycle
                        /\ lastCycle' = [lastCycle EXCEPT !.returned = "nil"]
    /\ swapped' = [cycle |-> upd.cycle, ok |-> cityDB' # 0 /\ asnDB' # 0]
    /\ mu' = "free"
    /\ upd' = [upd EXCEPT !.pc = "idle"]
    /\ UNCHANGED << routeVars, clientVars, indexVars, lifeVars, bootVars,
                    files, tmpFiles, worker, cache, now, requests, crashed >>

NextReload ==
    \/ StartUpdater_ticker(MaxTicks)
    \/ ticker_send
    \/ cancel
    \/ StartUpdater_select_tick
    \/ StartUpdater_select_done
    \/ UpdateDatabases_DownloadDatabases
    \/ UpdateDatabases_lock
    \/ UpdateDatabases_Close
    \/ UpdateDatabases_Open
    \/ Close

\* main with the MaxMind updater, from StartUpdater to the return of its
\* deferred Close.
SpecReload == Init /\ [][NextReload]_vars

\* ------------------------------------------------------------------ main

\* A main that goes on with whatever NewGeoIPManager returned, error or not.
main_NewGeoIPManager_anyway ==
    /\ mainPc = "NewGeoIPManager"
    /\ boot.pc \in {"ready", "failed"}
    /\ mainPc' = "serving"
    /\ upd' = [upd EXCEPT !.pc = "idle"]
    /\ UNCHANGED << routeVars, clientVars, indexVars, bootVars, ctxDone,
                    tickPending, files, tmpFiles, handles, cityDB, asnDB,
                    asnPrefixMap, mapGen, mu, lastCycle, swapped, worker,
                    cache, now, requests, crashed >>

\* NewGeoIPManager returns to main: with an error main exits; with the
\* manager main calls StartUpdater, which starts the updater goroutine, and
\* then starts the server.
main_NewGeoIPManager ==
    /\ mainPc = "NewGeoIPManager"
    /\ boot.pc \in {"ready", "failed"}
    /\ IF boot.pc = "failed"
       THEN /\ mainPc' = "exited"
            /\ UNCHANGED upd
       ELSE /\ mainPc' = "serving"
            /\ upd' = [upd EXCEPT !.pc = "idle"]
    /\ UNCHANGED << routeVars, clientVars, indexVars, bootVars, ctxDone,
                    tickPending, files, tmpFiles, handles, cityDB, asnDB,
                    asnPrefixMap, mapGen, mu, lastCycle, swapped, worker,
                    cache, now, requests, crashed >>

NextMain ==
    \/ Initialize_lock
    \/ openDB_open
    \/ openDB_DownloadDatabases
    \/ openDB_reopen
    \/ Initialize_build
    \/ main_NewGeoIPManager
    \/ StartUpdater_tick
    \/ UpdateDatabases_DownloadDatabases
    \/ UpdateDatabases_lock
    \/ UpdateDatabases_Close
    \/ UpdateDatabases_Open
    \/ cancel
    \/ StartUpdater_select_done
    \/ Close
    \/ \E w \in {1} :
        \/ LookupIPData_Get(w)
        \/ LookupASNData_Get(w)
        \/ GetCityDB(w)
        \/ GetASNPrefixes(w)
        \/ GetASNDB(w)

\* The process starts with credentials and an ASN database on disk; the city
\* database is there, is not a database, or is missing.
InitMain ==
    /\ InitBoot
    /\ env = [accountID |-> "set", licenseKey |-> "set"]
    /\ disk["asn"] = "valid"

\* main from its start: NewGeoIPManager, the updater, the calls one request
\* goroutine at a time makes of the manager's getters, the deferred Close.
SpecMain == InitMain /\ [][NextMain]_vars

\* The same under a fair scheduler: code that can run does run (Initialize,
\* main, a refresh cycle that has begun), and a goroutine blocked in Lock or
\* RLock gets the lock once it stays free (sync.RWMutex wakes its waiters on
\* Unlock).
FairSpecMain ==
    /\ SpecMain
    /\ WF_vars(Initialize_lock)
    /\ WF_vars(openDB_open)
    /\ WF_vars(openDB_DownloadDatabases)
    /\ WF_vars(openDB_reopen)
    /\ WF_vars(Initialize_build)
    /\ WF_vars(main_NewGeoIPManager)
    /\ WF_vars(UpdateDatabases_DownloadDatabases)
    /\ WF_vars(UpdateDatabases_lock)
    /\ WF_vars(UpdateDatabases_Close)
    /\ WF_vars(UpdateDatabases_Open)
    /\ WF_vars(Close)
    /\ \A w \in Workers :
        /\ WF_vars(GetCityDB(w))
        /\ WF_vars(GetASNPrefixes(w))
        /\ WF_vars(GetASNDB(w))

\* ------------------------------------------------------------------ router

\* strings.Trim(text, cutset)
RECURSIVE Trim(_, _)
Trim(text, cutset) ==
    IF text = << >> THEN text
    ELSE IF Head(text) \in cutset THEN Trim(Tail(text), cutset)
    ELSE IF text[Len(text)] \in cutset
         THEN Trim(SubSeq(text, 1, Len(text) - 1), cutset)
    ELSE text

\* strings.Split(text, c): the fields between the separators; one empty
\* field for the empty text.
RECURSIVE Split(_, _)
Split(text, c) ==
    IF ~stringsContains(text, c) THEN << text >>
    ELSE LET i == CHOOSE j \in 1..Len(text) :
                     text[j] = c /\ \A k \in 1..(j - 1) : text[k] # c
         IN  << SubSeq(text, 1, i - 1) >>
                 \o Split(SubSeq(text, i + 1, Len(text)), c)

\* strings.ToLower on ASCII text.
ToLower(text) ==
    LET lower == << "a", "b", "c", "d", "e", "f", "g", "h", "i", "j", "k",
                    "l", "m", "n", "o", "p", "q", "r", "s", "t", "u", "v",
                    "w", "x", "y", "z" >>
        upper == << "A", "B", "C", "D", "E", "F", "G", "H", "I", "J", "K",
                    "L", "M", "N", "O", "P", "Q", "R", "S", "T", "U", "V",
                    "W", "X", "Y", "Z" >>
    IN  [i \in 1..Len(text) |->
            IF \E k \in 1..26 : upper[k] = text[i]
            THEN lower[CHOOSE k \in 1..26 : upper[k] = text[i]]
            ELSE text[i]]

\* strings.ToUpper on ASCII text.
ToUpper(text) ==
    LET lower == << "a", "b", "c", "d", "e", "f", "g", "h", "i", "j", "k",
                    "l", "m", "n", "o", "p", "q", "r", "s", "t", "u", "v",
                    "w", "x", "y", "z" >>
        upper == << "A", "B", "C", "D", "E", "F", "G", "H", "I", "J", "K",
                    "L", "M", "N", "O", "P", "Q", "R", "S", "T", "U", "V",
                    "W", "X", "Y", "Z" >>
    IN  [i \in 1..Len(text) |->
            IF \E k \in 1..26 : lower[k] = text[i]
            THEN upper[CHOOSE k \in 1..26 : lower[k] = text[i]]
            ELSE text[i]]

HasPrefix(text, p) ==
    Len(text) >= Len(p) /\ SubSeq(text, 1, Len(p)) = p

Digits == { "0", "1", "2", "3", "4", "5", "6", "7", "8", "9" }

\* The number a text of decimal digits writes.
RECURSIVE atoi(_)
atoi(field) ==
    IF field = << >> THEN 0
    ELSE 10 * atoi(SubSeq(field, 1, Len(field) - 1))
            + (CHOOSE i \in 1..10 : HexDigits[i] = field[Len(field)]) - 1

\* net.ParseIP of a text without ":" (no request of the pool has one): nil
\* unless the text is four IPv4 fields separated by dots, each of them decimal
\* digits, no leading zero, at most 255.
ParseIP(text) ==
    LET fields == Split(text, ".")
        ipv4Field(field) ==
            /\ field # << >>
            /\ Len(field) <= 3
            /\ \A i \in 1..Len(field) : field[i] \in Digits
            /\ Len(field) > 1 => field[1] # "0"
            /\ atoi(field) <= 255
    IN  IF Len(fields) = 4 /\ \A i \in 1..4 : ipv4Field(fields[i])
        THEN IPv4(atoi(fields[1]), atoi(fields[2]), atoi(fields[3]),
                  atoi(fields[4]))
        ELSE << >>

\* strconv.ParseUint(text, 10, 32): a syntax error unless the text is one or
\* more decimal digits, a range error above 2^32 - 1 (told from the digits:
\* more than ten significant ones, or ten that follow "4294967295" in
\* order), else the number.
ParseUint(text) ==
    LET isNumber == text # << >> /\ \A i \in 1..Len(text) : text[i] \in Digits
        nonZero == { i \in 1..Len(text) : text[i] # "0" }
        sig == IF nonZero = {} THEN << >>
               ELSE SubSeq(text,
                           CHOOSE i \in nonZero : \A j \in nonZero : i <= j,
                           Len(text))
        max == << "4", "2", "9", "4", "9", "6", "7", "2", "9", "5" >>
    IN  IF ~isNumber THEN [err |-> "syntax", n |-> 0]
        ELSE IF Len(sig) > 10 \/ (Len(sig) = 10 /\ StrLess(max, sig))
        THEN [err |-> "range", n |-> 0]
        ELSE [err |-> "nil", n |-> atoi(sig)]

\* idna.ToASCII (the Punycode profile: no mapping, no validation), label by
\* label: a label without the ACE prefix "xn--" is kept; an ACE label is
\* decoded, and its decoded form is encoded again only if it is not ASCII.
\* Punycode's decode answers the empty text for the empty text, an error for
\* a delimiter in first place, and the basic code points alone when the
\* delimiter "-" is the last character; a label with deltas comes back as
\* it was written.
RECURSIVE ToASCII(_)
ToASCII(domain) ==
    LET label(l) ==
            IF ~HasPrefix(l, << "x", "n", "-", "-" >>)
            THEN [err |-> FALSE, text |-> l]
            ELSE LET encoded == SubSeq(l, 5, Len(l))
                     dashes == { i \in 1..Len(encoded) : encoded[i] = "-" }
                     pos == IF dashes = {} THEN 0
                            ELSE CHOOSE i \in dashes : \A j \in dashes : j <= i
                 IN  IF encoded = << >> THEN [err |-> FALSE, text |-> << >>]
                     ELSE IF pos = 1 THEN [err |-> TRUE, text |-> l]
                     ELSE IF pos = Len(encoded)
                     THEN [err |-> FALSE,
                           text |-> SubSeq(encoded, 1, Len(encoded) - 1)]
                     ELSE [err |-> FALSE, text |-> l]
    IN  IF ~stringsContains(domain, ".") THEN label(domain)
        ELSE LET i == CHOOSE j \in 1..Len(domain) :
                         domain[j] = "." /\ \A k \in 1..(j - 1) : domain[k] # "."
                 head == label(SubSeq(domain, 1, i - 1))
                 rest == ToASCII(SubSeq(domain, i + 1, Len(domain)))
             IN  [err |-> head.err \/ rest.err,
                  text |-> head.text \o << "." >> \o rest.text]

\* rootHandler: the handler the request's path is given to.
rootHandler(path) ==
    LET parts == Split(Trim(path, {"/"}), "/")
        firstPart == IF Len(parts) > 0 THEN parts[1] ELSE << >>
        isDomain == /\ stringsContains(firstPart, ".")
                    /\ ParseIP(firstPart) = << >>
                    /\ firstPart # << >>
    IN  IF HasPrefix(ToLower(firstPart), << "a", "s" >>)
        THEN "handleASNLookup"
        ELSE IF isDomain
        THEN IF Len(parts) > 1 THEN "sendJSONError"
             ELSE "handleDomainLookup"
        ELSE "handleIPLookup"

\* newRouter's mux: the two exact patterns, and "/" for every other path.
newRouter(path) ==
    IF path = << "/", "h", "e", "a", "l", "t", "h" >> THEN "HealthCheck"
    ELSE IF path = << "/", "f", "a", "v", "i", "c", "o", "n", ".", "i", "c",
                      "o" >>
    THEN "faviconHandler"
    ELSE rootHandler(path)

\* LookupIPData as one step: the cached record when cache.Get finds one (the
\* type assertion data.(*DataStruct) panics on a value of another type), else
\* the record composed from both readers and stored under ip.String(), or
\* nil when a Lookup fails; hit names the kind of the value Get found.
LookupIPData(c, ip, hostname, t) ==
    LET hostnameStr == IF Len(hostname) > 0
                       THEN TrimSuffix(hostname[1], ".") ELSE << >>
        store(c1, key, data) ==
            [cache |-> Set(c1, key, data, t), hit |-> "none", data |-> data]
        miss(c1, key, city, asn) ==
            IF city = "panic" \/ asn = "panic"
            THEN [cache |-> c1, hit |-> "none", data |-> [kind |-> "panic"]]
            ELSE IF city # "ok" \/ asn # "ok"
            THEN [cache |-> c1, hit |-> "none", data |-> NilData]
            ELSE IF AsnLookupFailsIn(AsnContent(handles[asnDB].ver), ip)
            THEN [cache |-> c1, hit |-> "none", data |-> NilData]
            ELSE store(c1, key,
                       DataStruct(key.value, hostnameStr,
                           AsnLookupIn(AsnContent(handles[asnDB].ver), ip),
                           CityLookup(handles[cityDB].ver, ip)))
        after(key, got) ==
            IF got.state = "hit"
            THEN [cache |-> c, hit |-> got.data.kind,
                  data |-> IF got.data.kind = "ip" THEN got.data
                           ELSE [kind |-> "panic"]]
            ELSE miss(IF got.state = "expired" THEN Delete(c, key) ELSE c,
                      key, readerState(handles, cityDB),
                      readerState(handles, asnDB))
        lookup(key) == after(key, Get(c, key, t))
    IN  lookup(StringKey(IPString(ip)))

\* LookupASNData as one step: the cached response when cache.Get finds one,
\* the not-found error when the index has no prefix for the number, else the
\* response composed and stored under the number.
LookupASNData(c, targetASN, t) ==
    LET store(c1, response) ==
            [cache |-> Set(c1, UintKey(targetASN), response, t),
             hit |-> "none", err |-> "nil", data |-> response]
        miss(c1, prefixes, st) ==
            IF Len(prefixes) = 0
            THEN [cache |-> c1, hit |-> "none", err |-> "no prefixes found",
                  data |-> NotFound]
            ELSE IF st = "panic"
            THEN [cache |-> c1, hit |-> "none", err |-> "panic",
                  data |-> NoResult]
            ELSE store(c1, ASNDataResponse(targetASN,
                               IF st = "ok"
                               THEN AsnLookup(handles[asnDB].ver,
                                              prefixes[1].IP).org
                               ELSE << >>,
                               prefixes))
        after(got) ==
            IF got.state = "hit"
            THEN [cache |-> c, hit |-> got.data.kind,
                  err |-> IF got.data.kind = "asn" THEN "nil" ELSE "panic",
                  data |-> got.data]
            ELSE miss(IF got.state = "expired"
                      THEN Delete(c, UintKey(targetASN)) ELSE c,
                      MapGet(asnPrefixMap, targetASN),
                      readerState(handles, asnDB))
    IN  after(Get(c, UintKey(targetASN), t))

\* LookupDomainData as one step: the cached response when cache.Get finds
\* one; an error when publicsuffix.EffectiveTLDPlusOne rejects the name (an
\* empty label, or no label before the public suffix); else the response,
\* whatever whois and the DNS answered, stored under the name.
LookupDomainData(c, domain, answer, t) ==
    LET store(c1, response) ==
            [cache |-> Set(c1, StringKey(domain), response, t),
             hit |-> "none", err |-> "nil", data |-> response]
        miss(c1, labels) ==
            IF Len(labels) < 2 \/ \E i \in 1..Len(labels) : labels[i] = << >>
            THEN [cache |-> c1, hit |-> "none", err |-> "invalid domain",
                  data |-> NoResult]
            ELSE store(c1, [kind |-> "domain", Whois |-> answer,
                            DNS |-> answer])
        after(got) ==
            IF got.state = "hit"
            THEN [cache |-> c, hit |-> got.data.kind,
                  err |-> IF got.data.kind = "domain" THEN "nil" ELSE "panic",
                  data |-> got.data]
            ELSE miss(IF got.state = "expired"
                      THEN Delete(c, StringKey(domain)) ELSE c,
                      Split(domain, "."))
    IN  after(Get(c, StringKey(domain), t))

\* handleASNLookup were it to report every error of LookupASNData, the
\* not-found one too, as a 500.
handleASNLookup_notFoundAs500(path, c, t) ==
    LET answerTo(r) ==
            [status |-> IF r.err = "panic" THEN 0
                        ELSE IF r.err # "nil" THEN 500
                        ELSE 200,
             cache |-> r.cache, lookup |-> "asn", hit |-> r.hit,
             body |-> r.data]
        parse(parsed) ==
            IF parsed.err # "nil" \/ parsed.n = 0
            THEN [status |-> 400, cache |-> c, lookup |-> "none",
                  hit |-> "none", body |-> NoResult]
            ELSE answerTo(LookupASNData(c, parsed.n, t))
        clean(upperPath) ==
            IF HasPrefix(upperPath, << "A", "S", "N" >>)
            THEN SubSeq(path, 4, Len(path))
            ELSE IF HasPrefix(upperPath, << "A", "S" >>)
            THEN SubSeq(path, 3, Len(path))
            ELSE path
    IN  parse(ParseUint(Trim(clean(ToUpper(path)), {"/", " "})))

\* handleASNLookup: the status it answers with (0: the handler panicked and
\* no answer was written), the cache it leaves, and the lookup it made.
handleASNLookup(path, c, t) ==
    LET answerTo(r) ==
            [status |-> IF r.err = "panic" THEN 0
                        ELSE IF r.err = "no prefixes found" THEN 404
                        ELSE IF r.err # "nil" THEN 500
                        ELSE 200,
             cache |-> r.cache, lookup |-> "asn", hit |-> r.hit,
             body |-> r.data]
        parse(parsed) ==
            IF parsed.err # "nil" \/ parsed.n = 0
            THEN [status |-> 400, cache |-> c, lookup |-> "none",
                  hit |-> "none", body |-> NoResult]
            ELSE answerTo(LookupASNData(c, parsed.n, t))
        clean(upperPath) ==
            IF HasPrefix(upperPath, << "A", "S", "N" >>)
            THEN SubSeq(path, 4, Len(path))
            ELSE IF HasPrefix(upperPath, << "A", "S" >>)
            THEN SubSeq(path, 3, Len(path))
            ELSE path
    IN  parse(ParseUint(Trim(clean(ToUpper(path)), {"/", " "})))

\* handleDomainLookup
handleDomainLookup(domain, c, answer, t) ==
    LET answerTo(r) ==
            [status |-> IF r.err = "panic" THEN 0
                        ELSE IF r.err # "nil" THEN 500
                        ELSE 200,
             cache |-> r.cache, lookup |-> "domain", hit |-> r.hit,
             body |-> r.data]
        lookup(punycodeDomain) ==
            IF punycodeDomain.err \/ Len(punycodeDomain.text) > 253
            THEN [status |-> 400, cache |-> c, lookup |-> "none",
                  hit |-> "none", body |-> NoResult]
            ELSE answerTo(LookupDomainData(c, punycodeDomain.text, answer, t))
    IN  lookup(ToASCII(domain))

\* handleIPLookup; realIP is what GetRealIP reads from the request.
handleIPLookup(path, realIP, c, hostname, t) ==
    LET fieldMap == { << "i", "p" >>, << "o", "r", "g" >>,
                      << "c", "i", "t", "y" >>, << "l", "o", "c" >> }
        bad == [status |-> 400, cache |-> c, lookup |-> "none",
                hit |-> "none", body |-> NoResult]
        answerTo(r) ==
            [status |-> IF r.data.kind = "panic" THEN 0
                        ELSE IF r.data = NilData THEN 404
                        ELSE 200,
             cache |-> r.cache, lookup |-> "ip", hit |-> r.hit,
             body |-> r.data]
        lookup(ip, field) ==
            IF ip = << >> THEN bad
            ELSE IF field # << >> /\ field \notin fieldMap THEN bad
            ELSE IF IsBogon(ip)
            THEN [status |-> 200, cache |-> c, lookup |-> "none",
                  hit |-> "none", body |-> [kind |-> "bogon"]]
            ELSE answerTo(LookupIPData(c, ip, hostname, t))
        ipAddress(parts) ==
            IF Len(parts) = 1 /\ (parts[1] = << >> \/ parts[1] \in fieldMap)
            THEN realIP ELSE parts[1]
        field(parts) ==
            IF Len(parts) = 2 THEN parts[2]
            ELSE IF parts[1] \in fieldMap THEN parts[1]
            ELSE << >>
        handle(parts) ==
            IF Len(parts) > 2 THEN bad
            ELSE lookup(ParseIP(ipAddress(parts)), field(parts))
    IN  handle(Split(path, "/"))

\* The paths requests come with: addresses, fields, domains, AS numbers in
\* their spellings, the two fixed paths, with and without a trailing slash.
Paths ==
    { << "/" >>,
      << "/", "9", ".", "9", ".", "9", ".", "9" >>,
      << "/", "9", ".", "9", ".", "9", ".", "9", "/" >>,
      << "/", "9", ".", "9", ".", "9", ".", "9", "/", "o", "r", "g" >>,
      << "/", "9", ".", "9", ".", "9", ".", "9", "/", "1", "9", "2", "8",
         "1" >>,
      << "/", "1", "0", ".", "0", ".", "0", ".", "1" >>,
      << "/", "o", "r", "g" >>,
      << "/", "2", "5", "6", ".", "1", ".", "1", ".", "1" >>,
      << "/", "1", ".", "2", ".", "3" >>,
      << "/", "x", "n", "-", "-", "9", "-", ".", "9", ".", "9", ".", "9" >>,
      << "/", "e", "x", ".", "c", "o", "m" >>,
      << "/", "e", "x", ".", "c", "o", "m", "/", "o", "r", "g" >>,
      << "/", "a", "s", "u", "s", ".", "c", "o", "m" >>,
      << "/", "A", "s", "k", ".", "i", "o" >>,
      << "/", "a", "s", "1", "5" >>,
      << "/", "a", "s", "1", "5", "/" >>,
      << "/", "a", "s", "1", "5", "/", "o", "r", "g" >>,
      << "/", "a", "s", "1", "9", "2", "8", "1" >>,
      << "/", "A", "S", "/", "1", "9", "2", "8", "1" >>,
      << "/", "A", "S", "N", "6", "4", "5", "0", "0" >>,
      << "/", "a", "s", "0" >>,
      << "/", "a", "s", "4", "2", "9", "4", "9", "6", "7", "2", "9", "6" >>,
      << "/", "A", "S" >>,
      << "/", "f", "a", "v", "i", "c", "o", "n", ".", "i", "c", "o" >>,
      << "/", "h", "e", "a", "l", "t", "h" >>,
      << "/", "h", "e", "a", "l", "t", "h", "/" >> }

\* The server takes a request and answers it: the mux picks the handler, the
\* handler makes its lookup and writes the response. The network answers
\* every query of the request (reverse DNS, whois, DNS) or none of them, and
\* the request carries a usable client address exactly when it does.
ServeHTTP ==
    /\ requests < MaxRequests
    /\ requests' = requests + 1
    /\ \E p \in Paths, answer \in {"none", "some"} :
        LET hostname == IF answer = "none" THEN << >>
                        ELSE CHOOSE hn \in Hostnames : hn # << >>
            realIP == IF answer = "none"
                      THEN << "u", "n", "k", "n", "o", "w", "n" >>
                      ELSE << "9", ".", "9", ".", "9", ".", "9" >>
            write(r) ==
                /\ reply' = [status |-> r.status, lookup |-> r.lookup,
                             hit |-> r.hit, body |-> r.body]
                /\ cache' = r.cache
            serve(h, path) ==
                /\ handler' = h
                /\ write(IF h = "handleASNLookup"
                         THEN handleASNLookup(path, cache, now)
                         ELSE IF h = "handleDomainLookup"
                         THEN handleDomainLookup(Split(path, "/")[1], cache,
                                                 answer, now)
                         ELSE IF h = "handleIPLookup"
                         THEN handleIPLookup(path, realIP, cache, hostname,
                                             now)
                         ELSE [status |-> IF h = "sendJSONError" THEN 400
                                          ELSE 200,
                               cache |-> cache, lookup |-> "none",
                               hit |-> "none", body |-> NoResult])
        IN  /\ reqPath' = p
            /\ serve(newRouter(p), Trim(p, {"/"}))
    /\ UNCHANGED << managerVars, clientVars, indexVars, worker, crashed,
                    now >>

NextRouter == ServeHTTP

\* The server under requests that come one after the other.
SpecRouter == Init /\ [][NextRouter]_vars

\* ------------------------------------------------------------------ properties

\* What a lookup has in hand: a goroutine composed its answer from the
\* databases (not from the cache) when it holds an ASN reader.
Composed(wk) == wk.pc = "done" /\ wk.asnH # 0 /\ wk.res.kind \in {"ip", "asn"}

\* C1: every lookup takes the city reader, the ASN reader and the prefix index
\* it uses from one refresh cycle: LookupIPData's two readers are of the same
\* cycle, and LookupASNData's index and reader are of the same cycle.
C1_SameCycle ==
    \A w \in Workers :
        LET wk == worker[w]
        IN  /\ (wk.kind = "ip" /\ (wk.pc = "compose" \/ Composed(wk)))
                 => handles[wk.cityH].gen = handles[wk.asnH].gen
            /\ (wk.kind = "asn" /\ Composed(wk))
                 => wk.prefixesGen = handles[wk.asnH].gen

\* C2: no lookup calls Lookup on a reader that a refresh has closed.
C2_NoLookupOnClosedReader ==
    \A w \in Workers : ~worker[w].usedClosed

\* C3: after a cycle in which reopening a file failed, the readers and the
\* index that were in service before the cycle are in service, open and
\* unchanged, and no lookup panics on a nil reader.
C3_FailedReopenKeepsPrevious ==
    /\ (upd.pc = "idle" /\ swapped.cycle > 0 /\ ~swapped.ok)
         => /\ cityDB = lastCycle.before.cityDB
            /\ asnDB = lastCycle.before.asnDB
            /\ asnPrefixMap = lastCycle.before.asnPrefixMap
            /\ cityDB # 0 /\ ~handles[cityDB].closed
            /\ asnDB # 0 /\ ~handles[asnDB].closed
    /\ \A w \in Workers : worker[w].pc # "panic"

\* The reader in service for an edition.
InServiceReader(e) == IF e = "city" THEN cityDB ELSE asnDB

\* C4: when a cycle has ended in which one edition's download failed and the
\* other's succeeded, the edition that succeeded is committed: its target file
\* is the one the cycle downloaded and the reader in service was opened by the
\* cycle; the edition that failed keeps its file and its reader.
C4_OtherEditionCommitted ==
    \A e \in Editions, f \in Editions :
        (/\ upd.pc = "idle"
         /\ lastCycle.cycle > 0
         /\ lastCycle.download[e] = "ok"
         /\ lastCycle.download[f] = "error")
          => /\ files[e].ver = lastCycle.cycle
             /\ InServiceReader(e) # 0
             /\ handles[InServiceReader(e)].gen = lastCycle.cycle
             /\ files[f] = lastCycle.before.files[f]

\* C5: a Get finds a value exactly when a Set was made for its key less than
\* the time to live before it, and the value it finds is the value of the last
\* such Set; a Get that finds the entry expired leaves no entry of that Set.
C5_GetReturnsLatestSet ==
    \A c \in Clients :
        LET cl == client[c]
            fresh == cl.latest # << >> /\ cl.at - cl.latest[1].time < TTL
        IN  cl.key \in Keys =>
              /\ cl.found <=> fresh
              /\ cl.found => cl.data = cl.latest[1].data
              /\ (cl.pc = "idle" /\ cl.latest # << >> /\ ~fresh
                    /\ stored[cl.key] = cl.latest)
                   => cl.key \notin DOMAIN cache

\* The text of every network of the fixtures, and whether IsBogon holds of it.
AllNets == { Net10, NetDoc, Net9, Net100, NetCf, NetMap }
TextOf == [n \in AllNets |-> IPNetString(n)]
BogonNet == [n \in AllNets |-> IsBogon(n.IP)]

\* A list of texts is in sort.Strings order.
IsSorted(l) == \A i, j \in 1..Len(l) : i < j => ~StrLess(l[j], l[i])

Text_10_24 == << "1", "0", ".", "0", ".", "0", ".", "0", "/", "2", "4" >>
Text_2001_db8_32 ==
    << "2", "0", "0", "1", ":", "d", "b", "8", ":", ":", "/", "3", "2" >>

C8_GetterReturnsNewGeneration ==
    \A w \in Workers :
        LET wk == worker[w]
        IN  /\ wk.pc = "cityLookup" =>
                /\ wk.cityH # 0 => handles[wk.cityH].gen = wk.seen.cycle
                /\ wk.seen.ok => wk.cityH # 0
            /\ wk.pc = "asnLookup" =>
                /\ wk.asnH # 0 => handles[wk.asnH].gen = wk.seen.cycle
                /\ wk.seen.ok => wk.asnH # 0
            /\ (wk.kind = "asn" /\ wk.pc = "getASNDB") =>
                wk.prefixesGen = wk.seen.cycle

\* A lookup took the city reader after the first refresh had returned.
C8_Witness ==
    \E w \in Workers :
        /\ worker[w].pc = "cityLookup"
        /\ worker[w].seen = [cycle |-> 1, ok |-> TRUE]
        /\ worker[w].cityH # 0

\* The entries of AS number asn in the ASN database that the cycle g opened.
EntriesOf(g, asn) ==
    LET hs == { h \in 1..Len(handles) :
                  handles[h].ed = "asn" /\ handles[h].gen = g }
    IN  IF hs = {} THEN {}
        ELSE LET c == AsnContent(handles[CHOOSE h \in hs : TRUE].ver)
             IN  { i \in 1..Len(c) : c[i].decoded /\ c[i].asn = asn }

\* C9: a lookup that missed the cache returns not-found exactly when the
\* index it read holds no prefix for the AS number, and the cache never holds
\* a not-found outcome: under an AS number it holds a composed response.
C9_NotFoundIffNoPrefixes ==
    /\ \A w \in Workers :
          LET wk == worker[w]
              read == \/ wk.pc \in {"getASNDB", "asnLookup"}
                      \/ wk.pc = "done" /\ (wk.res = NotFound \/ wk.asnH # 0)
          IN  (wk.kind = "asn" /\ read) =>
                (wk.res = NotFound <=> EntriesOf(wk.prefixesGen, wk.asn) = {})
    /\ \A k \in DOMAIN cache :
          /\ cache[k].data.kind \in {"ip", "asn"}
          /\ k.type = "uint" =>
                cache[k].data.kind = "asn" /\ cache[k].data.ASN = k.value

\* AS 64500 was not found in the index of the first generation and is found
\* in the index of the next.
C9_Witness ==
    /\ worker[1].asn = 64500 /\ worker[1].pc = "done"
    /\ worker[1].res = NotFound /\ worker[1].prefixesGen = 0
    /\ worker[2].asn = 64500 /\ Composed(worker[2])
    /\ worker[2].prefixesGen = 1

\* C10: two builds of the index from one database hold the same set of
\* prefixes for every AS number, whatever order the entries came in.
C10_SamePrefixSets ==
    \A i, j \in 1..Len(built) :
        /\ DOMAIN built[i] = DOMAIN built[j]
        /\ \A asn \in DOMAIN built[i] :
              Range(built[i][asn]) = Range(built[j][asn])

\* Two builds whose iterators delivered the entries in different orders.
C10_Witness ==
    /\ Len(built) = 2
    /\ built[1] # built[2]

\* C11: the write lock is held only while the references are replaced: it is
\* free whenever the updater is about to download, to rename the files or to
\* reopen them and rebuild the index.
C11_LockOnlyForSwap ==
    upd.pc \in {"download", "rename", "reopen"} => mu = "free"

\* C12: a reader is closed only after the cycle has installed the new readers
\* and released the write lock: whenever a reader is closed the lock is free
\* and a reader of a later cycle is in service for its edition.
C12_CloseAfterInstall ==
    \A h \in 1..Len(handles) :
        handles[h].closed =>
            /\ mu = "free"
            /\ InServiceReader(handles[h].ed) # 0
            /\ handles[InServiceReader(handles[h].ed)].gen > handles[h].gen

\* C18: no step of a refresh cycle adds, removes or changes a cache entry,
\* and a lookup whose key has an entry within its time to live returns that
\* entry's value, whatever the updater is doing.
C18_RefreshLeavesCache ==
    [][/\ upd' # upd => cache' = cache
       /\ \A w \in Workers :
            LET key == cacheKey(worker'[w])
            IN  (/\ Free(w)
                 /\ worker'[w] # worker[w]
                 /\ key \in DOMAIN cache
                 /\ now - cache[key].time < TTL)
                  => /\ worker'[w].pc = "done"
                     /\ worker'[w].res = cache[key].data]_vars

\* After the first refresh put the files of cycle 1 in service, a lookup of
\* 9.9.9.9 returned from the cache the record composed from the files of
\* cycle 0.
C18_Witness ==
    /\ upd.pc = "idle" /\ swapped = [cycle |-> 1, ok |-> TRUE]
    /\ files["city"] = File(1, TRUE)
    /\ \E w \in Workers :
          /\ worker[w].kind = "ip" /\ worker[w].pc = "done"
          /\ worker[w].asnH = 0
          /\ worker[w].res.kind = "ip"
          /\ worker[w].res.Country = << << "C", "0" >> >>

\* C20: when net.LookupAddr gives no name, LookupIPData still composes the
\* record, with no Hostname, stores it in the cache under the address and
\* returns it.
C20_DNSFailureStillComposes ==
    [][\A w \in Workers :
          (/\ worker[w].pc = "compose"
           /\ worker'[w] # worker[w]
           /\ worker'[w].hostname = << >>)
            => /\ worker'[w].pc = "done"
               /\ worker'[w].res.kind = "ip"
               /\ worker'[w].res.Hostname = << >>
               /\ worker'[w].res.IP = << ipStrOf[worker[w].ip] >>
               /\ cacheKey(worker[w]) \in DOMAIN cache'
               /\ cache'[cacheKey(worker[w])].data = worker'[w].res]_vars

\* A lookup whose reverse-DNS query gave no name returned a record, and the
\* cache holds it.
C20_Witness ==
    \E w \in Workers :
        /\ worker[w].kind = "ip" /\ Composed(worker[w])
        /\ worker[w].hostname = << >>
        /\ worker[w].res.Hostname = << >>
        /\ cacheKey(worker[w]) \in DOMAIN cache
        /\ cache[cacheKey(worker[w])].data = worker[w].res

\* C19: an entry leaves the cache only in the Delete of a Get on its own key,
\* and it is the entry that this Get found expired.
C19_EntryLeavesOnlyWhenFoundExpired ==
    [][\A k \in DOMAIN cache :
          k \notin DOMAIN cache'
            => \E c \in Clients :
                  /\ client[c].pc = "delete" /\ client'[c].pc = "idle"
                  /\ client[c].key = k
                  /\ client[c].latest = << cache[k] >>
                  /\ client[c].at - cache[k].time >= TTL]_vars

C14_NoCycleAfterCancel ==
    [][ctxDone => ~(upd.pc = "idle" /\ upd'.pc = "download")]_vars

\* C15: after ctx.Done() is closed the updater goroutine stops its ticker and
\* returns in the end.
C15_UpdaterStops ==
    ctxDone ~> (upd.pc = "stopped")

\* The goroutine has returned after a cancellation that arrived while the
\* first cycle was renaming its files.
C15_Witness ==
    /\ upd.pc = "stopped" /\ ctxDone
    /\ lastCycle.cancelledAt = "rename"
    /\ lastCycle.returned = "nil"

\* openDB has returned for the path of edition e.
Returned(e) ==
    \/ boot.pc \in {"build", "ready"}
    \/ boot.pc = "failed" /\ boot.first[e] # "none"
    \/ e = "city" /\ boot.ed = "asn"

\* C16 as stated: a path whose first Open failed, the file missing or
\* corrupt, gets one download attempt, and Initialize fails on a path only
\* after that attempt and with the file still not a database.
C16_MissingOrCorruptTriggersDownload ==
    \A e \in Editions :
        /\ (Returned(e) /\ boot.first[e] \in {"missing", "corrupt"})
             => boot.downloads[e] = 1
        /\ (boot.pc = "failed" /\ boot.failedOn = e)
             => boot.downloads[e] = 1 /\ disk[e] # "valid"

\* C16: only a missing file gets the download attempt, one DownloadDatabases
\* call over every edition followed by one reopen of the path when that call
\* returned no error; a file that is there and cannot be opened fails
\* Initialize at once. Initialize fails on a path exactly when its file is
\* corrupt, or the download call returned an error, or the reopen failed.
C16_MissingTriggersDownload ==
    \A e \in Editions :
        Returned(e) =>
            LET failedHere == boot.pc = "failed" /\ boot.failedOn = e
            IN  /\ boot.first[e] = "valid"
                     => boot.downloads[e] = 0 /\ ~failedHere
                /\ boot.first[e] = "corrupt"
                     => /\ boot.downloads[e] = 0
                        /\ failedHere /\ boot.err = "ErrDatabaseOpen"
                /\ boot.first[e] = "missing"
                     => /\ boot.downloads[e] = 1
                        /\ boot.downloaded[e] = "error"
                             => /\ failedHere /\ boot.err = "ErrDownloadFailed"
                                /\ boot.reopened[e] = "none"
                        /\ boot.downloaded[e] = "nil"
                             => /\ boot.reopened[e] = 
                                     (IF disk[e] = "valid" THEN "ok" ELSE "fail")
                                /\ failedHere <=> disk[e] # "valid"
                                /\ failedHere => boot.err = "ErrDatabaseOpen"

\* Initialize succeeded after the city file, missing at the start, was
\* downloaded and opened.
C16_Witness ==
    /\ boot.pc = "ready"
    /\ boot.first["city"] = "missing"
    /\ boot.downloads["city"] = 1
    /\ boot.reopened["city"] = "ok"
    /\ cityDB # 0 /\ asnDB # 0

\* One of the two credentials is not set.
CredentialsMissing == env.accountID = "" \/ env.licenseKey = ""

\* C17 as stated: without credentials Initialize fails exactly when neither
\* path holds a database that can be opened.
C17_FatalOnlyWithoutAnyFile ==
    (CredentialsMissing /\ boot.pc \in {"ready", "failed"})
      => (boot.pc = "failed" <=> \A e \in Editions : boot.disk0[e] # "valid")

\* C17: without credentials Initialize succeeds exactly when both paths hold
\* a database that can be opened; it fails on the first path that does not,
\* with the download error for a missing file and the open error otherwise.
C17_FatalUnlessBothFiles ==
    (CredentialsMissing /\ boot.pc \in {"ready", "failed"})
      => /\ boot.pc = "ready" <=> \A e \in Editions : boot.disk0[e] = "valid"
         /\ boot.pc = "failed"
              => /\ boot.disk0[boot.failedOn] # "valid"
                 /\ boot.err = IF boot.disk0[boot.failedOn] = "missing"
                               THEN "ErrDownloadFailed" ELSE "ErrDatabaseOpen"

\* Without credentials Initialize failed although the city file was a
\* database: the ASN file was missing.
C17_Witness ==
    /\ CredentialsMissing
    /\ boot.pc = "failed" /\ boot.failedOn = "asn"
    /\ boot.err = "ErrDownloadFailed"
    /\ boot.disk0 = [e \in Editions |-> IF e = "city" THEN "valid" ELSE "missing"]
    /\ cityDB # 0

\* The record the ASN database of release ver holds for ip cannot be decoded.
Undecodable(ver, ip) ==
    \E i \in 1..Len(AsnContent(ver)) :
        /\ ~AsnContent(ver)[i].decoded
        /\ Contains(AsnContent(ver)[i].net, ip)

\* The step of goroutine w is a Lookup that returns an error: the record
\* cannot be decoded, or the reader was closed and Lookup reports it.
LookupReturnsError(w) ==
    /\ worker[w].kind = "ip"
    /\ worker'[w] # worker[w]
    /\ \/ /\ worker[w].pc = "asnLookup"
          /\ readerState(handles, worker[w].asnH) = "ok"
          /\ Undecodable(handles[worker[w].asnH].ver, worker[w].ip)
       \/ /\ worker[w].pc \in {"cityLookup", "asnLookup"}
          /\ worker'[w].usedClosed
          /\ worker'[w].pc # "fault"

\* C21: when a Lookup of LookupIPData returns an error, LookupIPData returns
\* nil, the process goes on and the cache is left as it was.
C21_LookupErrorReturnsAbsent ==
    [][\A w \in Workers :
          LookupReturnsError(w)
            => /\ worker'[w].pc = "done"
               /\ worker'[w].res = NilData
               /\ cache' = cache
               /\ ~crashed']_vars

\* A lookup of 10.0.0.1 returned nil on the undecodable record of an open
\* reader, and the cache has no entry for the address.
C21_Witness ==
    \E w \in Workers :
        /\ worker[w].pc = "done" /\ worker[w].kind = "ip"
        /\ worker[w].ip = Ten1
        /\ worker[w].res = NilData
        /\ ~worker[w].usedClosed
        /\ worker[w].asnH # 0
        /\ cacheKey(worker[w]) \notin DOMAIN cache
        /\ ~crashed

\* C22: once Close has returned, no step closes, opens or installs a reader.
C22_NoCycleAfterClose ==
    [][mainPc = "closed"
         => /\ handles' = handles
            /\ cityDB' = cityDB
            /\ asnDB' = asnDB
            /\ asnPrefixMap' = asnPrefixMap]_vars

\* The path is one segment that holds a dot and is not an IP address.
IsDomainRequest(path) ==
    LET parts == Split(Trim(path, {"/"}), "/")
    IN  /\ Len(parts) = 1
        /\ stringsContains(parts[1], ".")
        /\ ParseIP(parts[1]) = << >>

\* C23: a request whose path is one segment that is a domain name is given to
\* the domain lookup.
C23_DomainRequestsGetDomainLookup ==
    (handler # "none" /\ IsDomainRequest(reqPath))
      => handler = "handleDomainLookup"

\* The networks of the entries of order that decode with AS number n, in
\* the order of order.
NetworksOf(order, n) ==
    LET Keep(e) == e.decoded /\ e.asn = n
        kept == SelectSeq(order, Keep)
    IN  [i \in 1..Len(kept) |-> kept[i].net]

\* The entries, in iteration order, of the ASN database the index in service
\* was built from: those of the reader the cycle mapGen opened, none when it
\* opened none.
IndexedEntries ==
    LET hs == { h \in 1..Len(handles) :
                  handles[h].ed = "asn" /\ handles[h].gen = mapGen }
    IN  IF hs = {} THEN << >>
        ELSE AsnContent(handles[CHOOSE h \in hs : TRUE].ver)

\* C24: the index holds, for every AS number above zero, the networks of the
\* entries that decode with that number, in iteration order, and nothing
\* else: no key without such an entry, and never the key 0.
C24_IndexHoldsDecodedEntries ==
    /\ 0 \notin DOMAIN asnPrefixMap
    /\ DOMAIN asnPrefixMap =
          { e.asn : e \in { x \in Range(IndexedEntries) :
                              x.decoded /\ x.asn > 0 } }
    /\ \A n \in DOMAIN asnPrefixMap :
          asnPrefixMap[n] = NetworksOf(IndexedEntries, n)

\* The second cycle built the index from a database with an entry that does
\* not decode and an entry of AS number 0: it holds the three networks of
\* AS 19281 and no other key.
C24_Witness ==
    /\ mapGen = 2 /\ asnDB # 0 /\ handles[asnDB].gen = 2
    /\ \E x \in Range(IndexedEntries) : ~x.decoded
    /\ \E x \in Range(IndexedEntries) : x.decoded /\ x.asn = 0
    /\ DOMAIN asnPrefixMap = {19281}
    /\ asnPrefixMap[19281] = << Net9, NetMap, NetCf >>

\* C25: when a download of the cycle failed, UpdateDatabases returns the
\* error with the write lock never taken, the readers, the index and the
\* files as they were and no reader closed, and the loop is back at its
\* select.
C25_DownloadErrorLeavesManager ==
    [][(/\ upd.pc = "download"
        /\ upd' # upd
        /\ \E e \in Editions : lastCycle'.download[e] = "error")
         => /\ upd'.pc = "idle"
            /\ lastCycle'.returned \in Editions
            /\ mu = "free" /\ mu' = "free"
            /\ cityDB' = cityDB /\ asnDB' = asnDB
            /\ asnPrefixMap' = asnPrefixMap /\ mapGen' = mapGen
            /\ handles' = handles
            /\ files' = files]_vars

\* The first cycle returned the error of a download, nothing of the manager
\* changed, and the next tick began the second cycle.
C25_Witness ==
    /\ upd.pc = "download" /\ upd.cycle = 2
    /\ \E e \in Editions : lastCycle.prev[e] = "error"
    /\ cityDB = 1 /\ asnDB = 2
    /\ \A h \in 1..Len(handles) : ~handles[h].closed
    /\ swapped.cycle = 0

\* C26: when the fetch of an edition has returned an error, no temp file of
\* that edition is on disk.
C26_NoTempFileAfterError ==
    \A e \in Editions :
        (upd.pc = "idle" /\ lastCycle.download[e] = "error")
          => tmpFiles[e] = << >>

\* C27: the download step leaves every target file as it is.
C27_DownloadLeavesTargets ==
    [][boot.pc = "download" => disk' = disk]_vars

\* C28: a target path changes only by the rename, under the write lock, of
\* the temp file that this cycle's download wrote and closed without error:
\* the path holds the whole previous file or the whole downloaded file.
C28_TargetReplacedOnlyByRename ==
    [][\A e \in Editions :
          files'[e] # files[e]
            => /\ upd.pc = "rename" /\ mu = "updater"
               /\ lastCycle.download[e] = "ok"
               /\ tmpFiles[e] = << files'[e] >>
               /\ files'[e].ver = upd.cycle
               /\ tmpFiles'[e] = << >>]_vars

\* A cycle renamed the city file and failed to rename the ASN file: the ASN
\* path holds the previous file, its temp file is still there.
C28_Witness ==
    /\ upd.pc = "reopen" /\ upd.cycle = 1
    /\ files["city"] = File(1, TRUE)
    /\ files["asn"] = File(0, TRUE)
    /\ tmpFiles["asn"] = << File(1, TRUE) >>

\* C29: when the origin answers 304 Not Modified for an edition,
\* downloadEdition leaves its target file and its temp path as they were and
\* reports no error: DownloadDatabases returns nil unless another edition
\* failed.
C29_NotModifiedIsSuccess ==
    [][\A e \in Editions :
          (/\ boot.pc = "download"
           /\ boot' # boot
           /\ boot'.answers[e] = "notModified")
            => /\ disk'[e] = disk[e]
               /\ tmpFiles'[e] = tmpFiles[e]
               /\ (\A x \in Editions \ {e} :
                      boot'.answers[x] \notin {"error", "renameError"})
                    => boot'.pc = "reopen" /\ boot'.err = "none"]_vars

\* Initialize succeeded after a download in which the city file, missing, was
\* fetched and the origin answered Not Modified for the ASN file.
C29_Witness ==
    /\ boot.pc = "ready"
    /\ boot.first["city"] = "missing"
    /\ boot.answers["asn"] = "notModified"
    /\ disk["asn"] = boot.disk0["asn"]
    /\ tmpFiles["asn"] = << >>

\* C30: once the downloads of a refresh cycle are over, every edition has been
\* attempted, also the ones after a failed one, and when a download failed the
\* error the cycle returns is that of the first edition, in the order the
\* loop visited them, whose download failed.
C30_AllAttemptedFirstErrorReported ==
    lastCycle.order # << >> =>
        LET order == lastCycle.order
            failed == { i \in DOMAIN order :
                          lastCycle.download[order[i]] = "error" }
        IN  /\ \A e \in Editions : lastCycle.download[e] \in {"ok", "error"}
            /\ failed # {} =>
                 /\ lastCycle.returned \in Editions
                 /\ \E i \in failed :
                      /\ lastCycle.returned = order[i]
                      /\ \A j \in failed : i <= j

\* The first edition the loop visited failed, the second one was downloaded
\* all the same, and the cycle returned the first one's error.
C30_Witness ==
    /\ lastCycle.order # << >>
    /\ lastCycle.download[lastCycle.order[1]] = "error"
    /\ lastCycle.download[lastCycle.order[2]] = "ok"
    /\ lastCycle.returned = lastCycle.order[1]
    /\ upd.pc = "idle"

\* C33: a completed Set(k, v) is not undone by a concurrent Get(k): as long
\* as less than the time to live has passed since the last Set on a key, the
\* entry of that Set is in the cache, whatever Gets overlap it.
C33_SetNotUndoneByGet ==
    \A k \in Keys :
        (stored[k] # << >> /\ now - stored[k][1].time < TTL)
          => /\ k \in DOMAIN cache
             /\ cache[k] = stored[k][1]

\* C35: refresh cycles are strictly sequential: a cycle begins only when the
\* goroutine is back in its select, the cycle before it has returned and the
\* write lock it took is released; a tick that fires during a cycle waits and
\* starts nothing.
C35_CyclesAreSequential ==
    [][upd'.cycle # upd.cycle
         => /\ upd.pc = "idle"
            /\ upd'.cycle = upd.cycle + 1
            /\ lastCycle.returned # "running"
            /\ mu # "updater"]_vars

\* A tick has fired while the cycle is in its swap, holding the write lock.
C35_Witness ==
    /\ tickPending
    /\ upd.pc = "rename"
    /\ mu = "updater"
    /\ lastCycle.returned = "running"

\* C37: the index a refresh cycle leaves is built from scratch: it is empty
\* when the cycle could not open the ASN database, and otherwise every prefix
\* in it is a network of the ASN database the cycle opened, filed under the
\* AS number that database gives it; nothing of the previous index stays.
C37_IndexRebuiltFromScratch ==
    (mapGen > 0 /\ mu # "updater") =>
        IF asnDB = 0 THEN asnPrefixMap = EmptyMap
        ELSE \A asn \in DOMAIN asnPrefixMap :
               \A i \in DOMAIN asnPrefixMap[asn] :
                 \E e \in Range(AsnContent(handles[asnDB].ver)) :
                    /\ e.decoded
                    /\ e.asn = asn
                    /\ e.net = asnPrefixMap[asn][i]

\* A cycle has reopened an ASN database that lacks a prefix of the index the
\* cycle started with, and the new index does not have that prefix.
C37_Witness ==
    /\ mapGen > 0
    /\ mu = "free"
    /\ asnDB # 0
    /\ handles[asnDB].gen = mapGen
    /\ \E asn \in DOMAIN lastCycle.before.asnPrefixMap :
         \E i \in DOMAIN lastCycle.before.asnPrefixMap[asn] :
           /\ asn \in DOMAIN asnPrefixMap
           /\ \A j \in DOMAIN asnPrefixMap[asn] :
                asnPrefixMap[asn][j] # lastCycle.before.asnPrefixMap[asn][i]

\* C38: a lookup that finds its key in the cache returns the cached value in
\* that step: it takes no reader and no prefix list from the manager, needs
\* no lock, and leaves the manager as it is, so it completes also while a
\* refresh cycle holds the write lock.
C38_CacheHitBypassesManager ==
    [][\A w \in Workers :
          (Free(w) /\ worker'[w] # worker[w] /\ worker'[w].pc = "done")
            => /\ cacheKey(worker'[w]) \in DOMAIN cache
               /\ worker'[w].res = cache[cacheKey(worker'[w])].data
               /\ worker'[w].cityH = IdleWorker.cityH
               /\ worker'[w].asnH = IdleWorker.asnH
               /\ worker'[w].prefixes = IdleWorker.prefixes
               /\ UNCHANGED << mu, handles, cityDB, asnDB, asnPrefixMap,
                               cache >>]_vars

\* A lookup has returned a cached response while the refresh cycle held the
\* write lock.
C38_Witness ==
    \E w \in Workers :
        /\ worker[w].pc = "done"
        /\ worker[w].hitUnder = "updater"
        /\ worker[w].res.kind \notin {"none", "nil"}

\* C34: no reader is closed more than once by the refresh cycles: as long as
\* main has not run its Close, every reader opened so far has had at most one
\* Close call.
C34_ReaderClosedAtMostOnce ==
    mainPc = "serving" =>
        \A h \in 1..Len(handles) : handles[h].closes <= 1

\* C31: in the one shared cache a lookup reads only values its own kind of
\* lookup stored: whenever a request's lookup found a value in the cache, the
\* value is of the lookup's kind (IP, AS number or domain).
C31_LookupReadsItsOwnKind ==
    reply.hit # "none" => reply.hit = reply.lookup

\* The text of a request's path after its AS or ASN prefix.
TextAfterPrefix ==
    LET path == Trim(reqPath, {"/"})
    IN  IF Len(path) >= 3 /\ path[3] \in {"n", "N"} THEN SubSeq(path, 4, Len(path))
        ELSE SubSeq(path, 3, Len(path))

\* A text is a decimal number in 1..2^32-1: digits only, at most ten of them
\* after the leading zeros, and as a number at most 42949 * 10^5 + 67295.
IsASNumber(text) ==
    LET lead == { i \in 1..Len(text) : \A j \in 1..i : text[j] = "0" }
        sig == SubSeq(text, Cardinality(lead) + 1, Len(text))
        cut == IF Len(sig) > 5 THEN Len(sig) - 5 ELSE 0
        high == atoi(SubSeq(sig, 1, cut))
        low == atoi(SubSeq(sig, cut + 1, Len(sig)))
    IN  /\ text # << >>
        /\ \A i \in 1..Len(text) : text[i] \in Digits
        /\ sig # << >>
        /\ Len(sig) <= 10
        /\ high < 42949 \/ (high = 42949 /\ low <= 67295)

\* What the claim lets handleASNLookup answer to a request whose AS number is
\* written as text: 400 unless it is a number in range, 404 when the index
\* has no prefix for it, else 200 with the composed response.
ASNAnswerFor(text) ==
    LET prefixes == MapGet(asnPrefixMap, atoi(text))
    IN  IF ~IsASNumber(text) THEN reply.status = 400
        ELSE IF Len(prefixes) = 0 THEN reply.status = 404
        ELSE /\ reply.status = 200
             /\ reply.body = ASNDataResponse(atoi(text),
                                 AsnLookup(handles[asnDB].ver,
                                           prefixes[1].IP).org,
                                 prefixes)

\* C32 as stated: handleASNLookup answers 400 exactly when the text after the
\* AS/ASN prefix is not a decimal number in 1..2^32-1, 404 exactly when the
\* AS number has no prefixes, and 200 with the composed response otherwise.
C32_StatusFollowsTextAfterPrefix ==
    handler = "handleASNLookup" => ASNAnswerFor(TextAfterPrefix)

\* C32 amended: handleASNLookup answers 400 exactly when the text after the
\* AS/ASN prefix, with its leading and trailing slashes and spaces removed,
\* is not a decimal number in 1..2^32-1, 404 exactly when the AS number has
\* no prefixes, and 200 with the composed response otherwise; never 500.
C32_StatusFollowsTrimmedText ==
    handler = "handleASNLookup"
        => ASNAnswerFor(Trim(TextAfterPrefix, {"/", " "}))

\* The request "/AS/19281", whose number stands after a slash, has been
\* answered 200 with the response for AS 19281.
C32_Witness ==
    /\ handler = "handleASNLookup"
    /\ reqPath = << "/", "A", "S", "/", "1", "9", "2", "8", "1" >>
    /\ reply.status = 200
    /\ reply.body.ASN = 19281

\* The goroutine that holds the manager's lock is about to call Lock again.
LockHolderAtLock ==
    \/ mu = "initialize" /\ boot.pc = "lock"
    \/ mu = "updater" /\ upd.pc = "lock"

\* C36: the manager's lock is never acquired by the goroutine that holds it,
\* and nobody waits for it for ever: whoever holds it releases it, and
\* Initialize, the updater's UpdateDatabases, every request in GetCityDB,
\* GetASNPrefixes or GetASNDB and main's Close, once they want the lock, get
\* it in the end.
C36_LockIsAlwaysGranted ==
    /\ [](~LockHolderAtLock)
    /\ (mu # "free") ~> (mu = "free")
    /\ (boot.pc = "lock") ~> (mu = "initialize")
    /\ (upd.pc = "lock") ~> (mu = "updater")
    /\ (mainPc = "serving" /\ ctxDone) ~> (mainPc = "closed")
    /\ \A w \in Workers :
        /\ (worker[w].pc = "miss" /\ worker[w].kind = "ip")
               ~> (worker[w].pc = "cityLookup")
        /\ (worker[w].pc = "miss" /\ worker[w].kind = "asn")
               ~> (worker[w].pc \in {"done", "getASNDB"})
        /\ (worker[w].pc = "getASNDB") ~> (worker[w].pc = "asnLookup")

\* A request has been given the ASN reader by GetASNDB after it had to wait
\* for a refresh cycle that held the lock, and main's Close has run too.
C36_Witness ==
    /\ mainPc = "closed"
    /\ upd.cycle = 1
    /\ mu = "free"
    /\ \E w \in Workers :
        /\ worker[w].pc = "asnLookup"
        /\ worker[w].seen.cycle = 1

\* C39: NewGeoIPManager gives main a manager only with both readers open and
\* the index built from the ASN reader, and nothing uses the manager before:
\* when main goes on to StartUpdater and the server, Initialize has returned
\* nil, both fields hold open readers and the index is the one of the ASN
\* database; and whenever the updater goroutine exists or a request has been
\* taken, main has gone that way.
C39_ManagerReadyBeforeUse ==
    /\ [][mainPc = "NewGeoIPManager" /\ mainPc' = "serving"
            => /\ boot.pc = "ready"
               /\ mu = "free"
               /\ cityDB # 0 /\ ~handles[cityDB].closed
               /\ asnDB # 0 /\ ~handles[asnDB].closed
               /\ asnPrefixMap = buildLoop(AsnContent(handles[asnDB].ver),
                                          EmptyMap)]_vars
    /\ [](upd.pc # "notStarted" \/ requests > 0
            => mainPc \in {"serving", "closed"} /\ boot.pc = "ready")

\* A request has called a getter and a refresh cycle has run, on a manager
\* whose city database Initialize had to download first.
C39_Witness ==
    /\ boot.pc = "ready"
    /\ boot.downloads["city"] = 1
    /\ upd.cycle = 1
    /\ \E w \in Workers : worker[w].pc = "cityLookup"

====
